---- MODULE Spec2Model ----
(***************************************************************************)
(* Docent: the scenario orchestration service (ModelService), its Override *)
(* Store and result cache, wired to the in-memory Repository and the       *)
(* FunctionalScenarioRunner with the reference fixture of tests/conftest.  *)
(*                                                                         *)
(* Numbers are fixed point.  Inputs ("rate") are in tenths: 5.0 is 50.     *)
(* Outputs ("value") are in hundredths: 93.5 is 9350.  Timestamps are the  *)
(* readings of a logical clock that advances at every datetime.now().      *)
(***************************************************************************)
EXTENDS Integers, Sequences, FiniteSets, TLC

VARIABLES
    overrides,     \* ModelService._overrides: the Override Store, a list
    last_results,  \* ModelService._last_results: scenario name -> result
    clock,         \* the next reading of datetime.now()
    last,          \* the last command called, its arguments, and what it
                   \* returned or raised
    heap,          \* object id -> contents of a mutable list or dict; empty
                   \* where objects are not told apart
    refs,          \* attribute or caller's name -> the id of its object
    service        \* the MCP server module's _service: None, or the wired
                   \* ModelService instance

vars == <<overrides, last_results, clock, last, heap, refs, service>>

\* ------------------------------------------------------------------ bounds

\* The number of clock readings (Override.applied_at, ScenarioResult.run_at)
\* in one behaviour.
MaxClock == 3

\* ------------------------------------------------------- inputs of the calls

\* Python's None.  A value that may be None is a record: a dict (a function
\* on names), or a tagged value [type, v].
None == [none |-> TRUE]

\* A float and a list as Python values.
PyFloat(x) == [type |-> "float", v |-> x]

PyList(xs) == [type |-> "list", v |-> xs]

\* A bool and a str as Python values; the text of a str is its sequence of
\* characters.
PyBool(b) == [type |-> "bool", v |-> b]

PyStr(chars) == [type |-> "str", v |-> chars]

\* Field names a caller may pass: "rate" is the schema's input, "vol" is in
\* neither the schema nor the base inputs.
Fields == {"rate", "vol"}

\* Values a caller may pass in the overrides of run_scenario (6.5).
CallValues == {65}

\* The (source, value) pairs a caller may pass to override_input.
OverrideArgs == {[source |-> "rates", value |-> 55], [source |-> "user", value |-> 70]}

\* Scenario names a caller may pass: the catalog's and one that is absent.
CallNames == {"base", "stress", "does_not_exist"}

\* Dicts over a subset of Fields.
Dicts == UNION {[D -> CallValues] : D \in SUBSET Fields}

\* The overrides argument of run_scenario: None, {} or a dict.
CallOverrides == {None} \cup Dicts

\* The metrics argument of compare_scenarios.
MetricsArgs ==
    {None, PyList(<<>>), PyList(<<"value">>), PyList(<<"value", "nav">>)}

\* --------------------------------------------------------------- the wiring

\* conftest.scenarios: the Repository's catalog.
Scenarios ==
    << [name |-> "base", overrides |-> <<>>],
       [name |-> "stress", overrides |-> [rate |-> 60]] >>

\* conftest.service: the Runner's base inputs {"rate": 5.0}.
BaseInputs == [rate |-> 50]

\* conftest.schema: the names of the schema's inputs; "vol" of Fields is a
\* field the schema does not have.
SchemaInputs == {"rate"}

\* conftest.simple_model: value = round(100 - (rate - 5) * 6.5, 4), with
\* rate = inputs.get("rate", 5.0).
model_fn(inputs) ==
    LET rate == IF "rate" \in DOMAIN inputs THEN inputs["rate"] ELSE 50
    IN  [value |-> PyFloat(10000 - (rate - 50) * 65)]

\* ------------------------------------------------------------ Python dicts

\* d.update(e), and {**d, **e}: the keys of e overwrite those of d.
DictUpdate(d, e) ==
    [k \in (DOMAIN d) \cup (DOMAIN e) |-> IF k \in DOMAIN e THEN e[k] ELSE d[k]]

\* The elements of a list.
Elements(xs) == {xs[i] : i \in 1..Len(xs)}

\* d.get(k): None when the key is absent.
DictGet(d, k) == IF k \in DOMAIN d THEN d[k] ELSE None

\* ------------------------------------------------------------------ Runner

\* RunnerRun reporting only the extra overrides as applied.
RunnerRunExtraOnly(scenario, extra_overrides, now) ==
    LET inputs == DictUpdate(DictUpdate(BaseInputs, scenario.overrides),
                             extra_overrides)
    IN  [scenario_name |-> scenario.name,
         inputs_used |-> inputs,
         outputs |-> model_fn(inputs),
         overrides_applied |-> extra_overrides,
         run_at |-> now]

\* FunctionalScenarioRunner.run at clock reading now.
RunnerRun(scenario, extra_overrides, now) ==
    LET inputs == DictUpdate(DictUpdate(BaseInputs, scenario.overrides),
                             extra_overrides)
    IN  [scenario_name |-> scenario.name,
         inputs_used |-> inputs,
         outputs |-> model_fn(inputs),
         overrides_applied |-> DictUpdate(scenario.overrides, extra_overrides),
         run_at |-> now]

\* ----------------------------------------------------------------- Service

\* ModelService.get_active_overrides: list(self._overrides), a list of the
\* store's Overrides in the store's order.
GetActiveOverrides(ovs) == [i \in 1..Len(ovs) |-> ovs[i]]

\* ModelService.get_current_results: dict(self._last_results).
GetCurrentResults(cache) == [n \in DOMAIN cache |-> cache[n]]

\* scenarios = {s.name: s for s in self._repository.get_scenarios()}
ScenarioDict ==
    [n \in {Scenarios[i].name : i \in 1..Len(Scenarios)} |->
        LET i == CHOOSE j \in 1..Len(Scenarios) :
                    /\ Scenarios[j].name = n
                    /\ \A k \in (j + 1)..Len(Scenarios) : Scenarios[k].name # n
        IN  Scenarios[i]]

\* ", ".join(scenarios.keys()), kept as the list of names in catalog order.
Available == [i \in 1..Len(Scenarios) |-> Scenarios[i].name]

\* for ov in self._overrides: combined[ov.field] = ov.value
RECURSIVE SessionDict(_)
SessionDict(ovs) ==
    IF ovs = <<>> THEN <<>>
    ELSE LET ov == ovs[Len(ovs)]
         IN  DictUpdate(SessionDict(SubSeq(ovs, 1, Len(ovs) - 1)),
                        ov.field :> ov.value)

\* Python truthiness of an optional dict: None and {} are falsy.
Truthy(x) == x # None /\ DOMAIN x # {}

\* Python truthiness of an optional list: None and [] are falsy.
TruthyList(x) == x # None /\ Len(x.v) > 0

\* Combined with the layers swapped: a session override beats the call's.
CombinedSessionWins(ovs, call) ==
    IF Truthy(call) THEN DictUpdate(call, SessionDict(ovs)) ELSE SessionDict(ovs)

\* combined: the session overrides, then the call overrides on top.
Combined(ovs, call) ==
    IF Truthy(call) THEN DictUpdate(SessionDict(ovs), call) ELSE SessionDict(ovs)

\* RunScenario keeping in the cache the result of the last scenario alone.
RunScenarioSingleEntry(st, name, call) ==
    IF name \notin DOMAIN ScenarioDict
    THEN [st |-> st, raised |-> TRUE,
          error |-> [type |-> "ValueError", name |-> name, available |-> Available]]
    ELSE LET result == RunnerRun(ScenarioDict[name], Combined(st.overrides, call),
                                 st.clock)
         IN  [st |-> [overrides |-> st.overrides,
                      last_results |-> (name :> result),
                      clock |-> st.clock + 1],
              raised |-> FALSE,
              result |-> result]

\* RunScenario returning the cached result of the scenario when there is one.
RunScenarioCached(st, name, call) ==
    IF name \notin DOMAIN ScenarioDict
    THEN [st |-> st, raised |-> TRUE,
          error |-> [type |-> "ValueError", name |-> name, available |-> Available]]
    ELSE LET result == IF name \in DOMAIN st.last_results
                       THEN [st.last_results[name] EXCEPT !.run_at = st.clock]
                       ELSE RunnerRun(ScenarioDict[name],
                                      Combined(st.overrides, call), st.clock)
         IN  [st |-> [overrides |-> st.overrides,
                      last_results |-> DictUpdate(st.last_results, name :> result),
                      clock |-> st.clock + 1],
              raised |-> FALSE,
              result |-> result]

\* RunScenario treating the session overrides as used up by the run.
RunScenarioConsumes(st, name, call) ==
    IF name \notin DOMAIN ScenarioDict
    THEN [st |-> st, raised |-> TRUE,
          error |-> [type |-> "ValueError", name |-> name, available |-> Available]]
    ELSE LET result == RunnerRun(ScenarioDict[name], Combined(st.overrides, call),
                                 st.clock)
         IN  [st |-> [overrides |-> <<>>,
                      last_results |-> DictUpdate(st.last_results, name :> result),
                      clock |-> st.clock + 1],
              raised |-> FALSE,
              result |-> result]

\* RunScenario keeping the call's "rate" as a session Override.
RunScenarioKeepsCall(st, name, call) ==
    IF name \notin DOMAIN ScenarioDict
    THEN [st |-> st, raised |-> TRUE,
          error |-> [type |-> "ValueError", name |-> name, available |-> Available]]
    ELSE LET result == RunnerRun(ScenarioDict[name], Combined(st.overrides, call),
                                 st.clock)
         IN  [st |-> [overrides |->
                        IF Truthy(call) /\ "rate" \in DOMAIN call
                        THEN SelectSeq(st.overrides, LAMBDA o : o.field # "rate")
                             \o <<[source |-> "call", field |-> "rate",
                                   value |-> call["rate"], applied_at |-> st.clock]>>
                        ELSE st.overrides,
                      last_results |-> DictUpdate(st.last_results, name :> result),
                      clock |-> st.clock + 1],
              raised |-> FALSE,
              result |-> result]

\* RunScenario caching a result only for a name that has none yet.
RunScenarioFirstWins(st, name, call) ==
    IF name \notin DOMAIN ScenarioDict
    THEN [st |-> st, raised |-> TRUE,
          error |-> [type |-> "ValueError", name |-> name, available |-> Available]]
    ELSE LET result == RunnerRun(ScenarioDict[name], Combined(st.overrides, call),
                                 st.clock)
         IN  [st |-> [overrides |-> st.overrides,
                      last_results |-> DictUpdate(name :> result, st.last_results),
                      clock |-> st.clock + 1],
              raised |-> FALSE,
              result |-> result]

\* RunScenario running the first scenario of the catalog for an unknown name.
RunScenarioFallsBack(st, name, call) ==
    LET scenario == IF name \in DOMAIN ScenarioDict THEN ScenarioDict[name]
                    ELSE Scenarios[1]
        result == RunnerRun(scenario, Combined(st.overrides, call), st.clock)
    IN  [st |-> [overrides |-> st.overrides,
                 last_results |-> DictUpdate(st.last_results, name :> result),
                 clock |-> st.clock + 1],
         raised |-> FALSE,
         result |-> result]

\* ModelService.run_scenario on the service state st = [overrides,
\* last_results, clock]: the state after the call and what it returned or
\* raised.
RunScenario(st, name, call) ==
    IF name \notin DOMAIN ScenarioDict
    THEN [st |-> st, raised |-> TRUE,
          error |-> [type |-> "ValueError", name |-> name, available |-> Available]]
    ELSE LET result == RunnerRun(ScenarioDict[name], Combined(st.overrides, call),
                                 st.clock)
         IN  [st |-> [overrides |-> st.overrides,
                      last_results |-> DictUpdate(st.last_results, name :> result),
                      clock |-> st.clock + 1],
              raised |-> FALSE,
              result |-> result]

\* WithoutField removing nothing when the field is the last one applied.
WithoutFieldKeepsLast(ovs, field) ==
    IF ovs # <<>> /\ ovs[Len(ovs)].field = field THEN ovs
    ELSE SelectSeq(ovs, LAMBDA o : o.field # field)

\* WithoutField with the test inverted: it keeps the field's Overrides only.
WithoutFieldInverted(ovs, field) == SelectSeq(ovs, LAMBDA o : o.field = field)

\* self._overrides = [o for o in self._overrides if o.field != field]
WithoutField(ovs, field) == SelectSeq(ovs, LAMBDA o : o.field # field)

\* OverrideInput without the removal: the new Override is only appended.
OverrideInputAppendOnly(ovs, source, field, value, now) ==
    Append(ovs,
           [source |-> source, field |-> field, value |-> value, applied_at |-> now])

\* OverrideInput dropping an Override whose field is not a schema input.
OverrideInputValidates(ovs, source, field, value, now) ==
    IF field \in SchemaInputs
    THEN Append(WithoutField(ovs, field),
                [source |-> source, field |-> field, value |-> value,
                 applied_at |-> now])
    ELSE ovs

\* OverrideInput building the kept Overrides anew, which stamps them with
\* the time of the call.
OverrideInputRestamps(ovs, source, field, value, now) ==
    Append([i \in 1..Len(WithoutField(ovs, field)) |->
                [WithoutField(ovs, field)[i] EXCEPT !.applied_at = now]],
           [source |-> source, field |-> field, value |-> value, applied_at |-> now])

\* OverrideInput replacing the Override of the field where it stands.
OverrideInputInPlace(ovs, source, field, value, now) ==
    IF \E i \in 1..Len(ovs) : ovs[i].field = field
    THEN [i \in 1..Len(ovs) |->
            IF ovs[i].field = field
            THEN [source |-> source, field |-> field, value |-> value,
                  applied_at |-> now]
            ELSE ovs[i]]
    ELSE Append(ovs, [source |-> source, field |-> field, value |-> value,
                      applied_at |-> now])

\* ModelService.override_input: the new Override Store.
OverrideInput(ovs, source, field, value, now) ==
    Append(WithoutField(ovs, field),
           [source |-> source, field |-> field, value |-> value, applied_at |-> now])

\* ------------------------------------------------------- Comparison Engine

\* The alphabetical order of the metric names, for sorted().
NameOrder == <<"nav", "value">>

\* sorted(names), for a set of names of NameOrder.
Sorted(names) == SelectSeq(NameOrder, LAMBDA n : n \in names)

\* The decimal digits; the value of a digit is its index minus 1.
Digits == <<"0", "1", "2", "3", "4", "5", "6", "7", "8", "9">>

IsDigit(c) == \E i \in 1..Len(Digits) : Digits[i] = c

DigitValue(c) == (CHOOSE i \in 1..Len(Digits) : Digits[i] = c) - 1

\* The number a sequence of digits writes.
RECURSIVE DigitsValue(_)
DigitsValue(ds) ==
    IF ds = <<>> THEN 0
    ELSE DigitsValue(SubSeq(ds, 1, Len(ds) - 1)) * 10 + DigitValue(ds[Len(ds)])

\* Every character of the text is a decimal digit.
AllDigits(ds) == \A i \in 1..Len(ds) : IsDigit(ds[i])

\* The index of the decimal point, or one past the end without one.
DotIndex(body) ==
    IF \E i \in 1..Len(body) : body[i] = "."
    THEN CHOOSE i \in 1..Len(body) : body[i] = "."
    ELSE Len(body) + 1

\* The number, in hundredths, written by the digits before and after the
\* decimal point; ok = FALSE where a part is not digits or both are empty.
ParseParts(whole, frac) ==
    IF Len(whole) + Len(frac) > 0 /\ Len(frac) <= 2
       /\ AllDigits(whole) /\ AllDigits(frac)
    THEN [ok |-> TRUE,
          v |-> DigitsValue(whole) * 100
                + (IF Len(frac) = 1 THEN 10 ELSE 1) * DigitsValue(frac)]
    ELSE [ok |-> FALSE]

\* The text split at its decimal point.
ParseAt(body, dot) ==
    ParseParts(SubSeq(body, 1, dot - 1), SubSeq(body, dot + 1, Len(body)))

\* The number with its sign changed.
Negated(parsed) ==
    IF parsed.ok THEN [ok |-> TRUE, v |-> -parsed.v] ELSE parsed

\* float(text) for the decimal texts [-]digits[.digits] with at most two
\* decimals: [ok |-> TRUE, v |-> hundredths], or ok = FALSE where float()
\* raises ValueError.
ParseFloat(chars) ==
    IF chars # <<>> /\ chars[1] = "-"
    THEN Negated(ParseAt(Tail(chars), DotIndex(Tail(chars))))
    ELSE ParseAt(chars, DotIndex(chars))

\* float(v) succeeds (raises neither TypeError nor ValueError): a float, a
\* bool, or a str that parses; float() of a list raises TypeError.
CanFloat(v) ==
    \/ v.type \in {"float", "bool"}
    \/ v.type = "str" /\ ParseFloat(v.v).ok

\* float(v), in hundredths.
ToFloat(v) ==
    IF v.type = "float" THEN v.v
    ELSE IF v.type = "bool" THEN (IF v.v THEN 100 ELSE 0)
    ELSE ParseFloat(v.v).v

\* val != 0 on the value as it is: a str or a list is never equal to 0, and
\* False is.
NotEqualZero(v) ==
    IF v.type = "float" THEN v.v # 0
    ELSE IF v.type = "bool" THEN v.v
    ELSE TRUE

\* RoundDiv rounding down instead of to the nearest.
RoundDivFloor(n, d) == n \div d

\* n / d rounded to the nearest integer, ties to even (Python's round), d > 0.
\* The quotient is exact here; a binary float may fall on the other side of
\* a tie.
RoundDiv(n, d) ==
    LET q == n \div d
        r == n - q * d
    IN  IF 2 * r < d THEN q
        ELSE IF 2 * r > d THEN q + 1
        ELSE IF q % 2 = 0 THEN q ELSE q + 1

\* delta / float(val_a) * 100 rounded to 2 places, in hundredths of a percent;
\* a is not 0.
PctChange(delta, a) ==
    IF a > 0 THEN RoundDiv(delta * 10000, a) ELSE RoundDiv(-(delta * 10000), -a)

\* GapEntry reporting a delta of 0.0 for a gap.
GapEntryZeroDelta(val_a, val_b) ==
    [a |-> val_a, b |-> val_b, delta |-> PyFloat(0), pct_change |-> None]

\* The entry of a data gap: the raw values, delta and pct_change None.
GapEntry(val_a, val_b) ==
    [a |-> val_a, b |-> val_b, delta |-> None, pct_change |-> None]

\* One pass of the loop over compare_metrics: the entry of differences, or
\* the error that leaves the try block (only TypeError and ValueError are
\* caught; the division raises ZeroDivisionError when val_a != 0 holds of
\* the value as it is while float(val_a) is 0).
\* delta is in hundredths, which round(delta, 6) leaves as it is.
Difference(val_a, val_b) ==
    IF val_a # None /\ val_b # None
    THEN IF CanFloat(val_b) /\ CanFloat(val_a)
         THEN LET delta == ToFloat(val_b) - ToFloat(val_a)
              IN  IF NotEqualZero(val_a) /\ ToFloat(val_a) = 0
                  THEN [raised |-> TRUE, error |-> [type |-> "ZeroDivisionError"]]
                  ELSE [raised |-> FALSE,
                        entry |->
                          [a |-> val_a, b |-> val_b, delta |-> PyFloat(delta),
                           pct_change |->
                             IF NotEqualZero(val_a)
                             THEN PyFloat(PctChange(delta, ToFloat(val_a)))
                             ELSE None]]
         ELSE [raised |-> FALSE, entry |-> GapEntry(val_a, val_b)]
    ELSE [raised |-> FALSE, entry |-> GapEntry(val_a, val_b)]

\* AllOutputs keeping only the names both results have.
AllOutputsShared(result_a, result_b) ==
    (DOMAIN result_a.outputs) \cap (DOMAIN result_b.outputs)

\* all_outputs: the output names of either result.
AllOutputs(result_a, result_b) ==
    (DOMAIN result_a.outputs) \cup (DOMAIN result_b.outputs)

\* compare_metrics = metrics if metrics else sorted(all_outputs)
CompareMetrics(result_a, result_b, metrics) ==
    IF TruthyList(metrics) THEN metrics.v
    ELSE Sorted(AllOutputs(result_a, result_b))

\* Comparison leaving out the entry of a metric that neither result has.
ComparisonSkipsAbsent(result_a, result_b, metrics) ==
    LET compare_metrics == CompareMetrics(result_a, result_b, metrics)
        pass == [i \in 1..Len(compare_metrics) |->
                    Difference(DictGet(result_a.outputs, compare_metrics[i]),
                               DictGet(result_b.outputs, compare_metrics[i]))]
        raising == {i \in 1..Len(compare_metrics) : pass[i].raised}
    IN  IF raising # {}
        THEN [raised |-> TRUE,
              error |-> pass[CHOOSE i \in raising : \A j \in raising : i <= j].error]
        ELSE [raised |-> FALSE,
              comparison |->
                [scenario_a |-> result_a, scenario_b |-> result_b,
                 metrics |-> compare_metrics,
                 differences |->
                    [m \in {compare_metrics[i] : i \in 1..Len(compare_metrics)}
                            \cap AllOutputs(result_a, result_b) |->
                        pass[CHOOSE i \in 1..Len(compare_metrics) :
                                compare_metrics[i] = m].entry]]]

\* The rest of compare_scenarios once both runs have returned: the
\* ScenarioComparison, or the error of the first metric whose pass raises.
Comparison(result_a, result_b, metrics) ==
    LET compare_metrics == CompareMetrics(result_a, result_b, metrics)
        pass == [i \in 1..Len(compare_metrics) |->
                    Difference(DictGet(result_a.outputs, compare_metrics[i]),
                               DictGet(result_b.outputs, compare_metrics[i]))]
        raising == {i \in 1..Len(compare_metrics) : pass[i].raised}
    IN  IF raising # {}
        THEN [raised |-> TRUE,
              error |-> pass[CHOOSE i \in raising : \A j \in raising : i <= j].error]
        ELSE [raised |-> FALSE,
              comparison |->
                [scenario_a |-> result_a, scenario_b |-> result_b,
                 metrics |-> compare_metrics,
                 differences |->
                    [m \in {compare_metrics[i] : i \in 1..Len(compare_metrics)} |->
                        pass[CHOOSE i \in 1..Len(compare_metrics) :
                                compare_metrics[i] = m].entry]]]

\* CompareScenarios running scenario_b with the Override Store emptied and
\* putting the store back afterwards.
CompareScenariosBareB(st, scenario_a, scenario_b, metrics) ==
    LET ra == RunScenario(st, scenario_a, None)
    IN  IF ra.raised THEN [st |-> ra.st, raised |-> TRUE, error |-> ra.error]
        ELSE
        LET rb == RunScenario([ra.st EXCEPT !.overrides = <<>>], scenario_b, None)
            after == [rb.st EXCEPT !.overrides = st.overrides]
        IN  IF rb.raised THEN [st |-> after, raised |-> TRUE, error |-> rb.error]
            ELSE
            LET c == Comparison(ra.result, rb.result, metrics)
            IN  IF c.raised THEN [st |-> after, raised |-> TRUE, error |-> c.error]
                ELSE [st |-> after, raised |-> FALSE, comparison |-> c.comparison]

\* CompareScenarios running scenario_b before scenario_a.
CompareScenariosBFirst(st, scenario_a, scenario_b, metrics) ==
    LET rb == RunScenario(st, scenario_b, None)
    IN  IF rb.raised THEN [st |-> rb.st, raised |-> TRUE, error |-> rb.error]
        ELSE
        LET ra == RunScenario(rb.st, scenario_a, None)
        IN  IF ra.raised THEN [st |-> ra.st, raised |-> TRUE, error |-> ra.error]
            ELSE
            LET c == Comparison(ra.result, rb.result, metrics)
            IN  IF c.raised THEN [st |-> ra.st, raised |-> TRUE, error |-> c.error]
                ELSE [st |-> ra.st, raised |-> FALSE, comparison |-> c.comparison]

\* ModelService.compare_scenarios on the service state st: the state after
\* the call and the comparison it returned, or the error it raised.
CompareScenarios(st, scenario_a, scenario_b, metrics) ==
    LET ra == RunScenario(st, scenario_a, None)
    IN  IF ra.raised THEN [st |-> ra.st, raised |-> TRUE, error |-> ra.error]
        ELSE
        LET rb == RunScenario(ra.st, scenario_b, None)
        IN  IF rb.raised THEN [st |-> rb.st, raised |-> TRUE, error |-> rb.error]
            ELSE
            LET c == Comparison(ra.result, rb.result, metrics)
            IN  IF c.raised THEN [st |-> rb.st, raised |-> TRUE, error |-> c.error]
                ELSE [st |-> rb.st, raised |-> FALSE, comparison |-> c.comparison]

\* ------------------------------------------------------------ state machine

\* ResetOverrides dropping only the Override applied last.
ResetOverridesDropsLast(ovs) ==
    IF ovs = <<>> THEN <<>> ELSE SubSeq(ovs, 1, Len(ovs) - 1)

\* ModelService.reset_overrides: the new Override Store.
ResetOverrides(ovs) == <<>>

\* ResetCount taken after the store is cleared.
ResetCountAfterClear(ovs) == Len(ResetOverrides(ovs))

\* count = len(self._overrides), taken before the store is cleared.
ResetCount(ovs) == Len(ovs)

State == [overrides |-> overrides, last_results |-> last_results, clock |-> clock]

Init ==
    /\ overrides = <<>>
    /\ last_results = <<>>
    /\ clock = 0
    /\ last = [op |-> "init"]
    /\ heap = <<>>
    /\ refs = <<>>
    /\ service = None

\* A call of run_scenario(name, overrides=call).
run_scenario(name, call) ==
    LET r == RunScenario(State, name, call)
    IN  /\ r.st.clock <= MaxClock
        /\ overrides' = r.st.overrides
        /\ last_results' = r.st.last_results
        /\ clock' = r.st.clock
        /\ last' = IF r.raised
                   THEN [op |-> "run_scenario", name |-> name, overrides |-> call,
                         raised |-> TRUE, error |-> r.error]
                   ELSE [op |-> "run_scenario", name |-> name, overrides |-> call,
                         raised |-> FALSE, result |-> r.result]
        /\ UNCHANGED <<heap, refs, service>>

\* A call of override_input(source, field, value).
override_input(source, field, value) ==
    /\ clock < MaxClock
    /\ overrides' = OverrideInput(overrides, source, field, value, clock)
    /\ clock' = clock + 1
    /\ last' = [op |-> "override_input", source |-> source, field |-> field,
                value |-> value, raised |-> FALSE,
                message |-> [source |-> source, field |-> field, value |-> value]]
    /\ UNCHANGED <<last_results, heap, refs, service>>

\* reset_overrides clearing the result cache as well.
reset_overrides_and_cache ==
    /\ overrides' = ResetOverrides(overrides)
    /\ last_results' = <<>>
    /\ last' = [op |-> "reset_overrides", raised |-> FALSE,
                count |-> ResetCount(overrides)]
    /\ UNCHANGED <<clock, heap, refs, service>>

\* A call of reset_overrides(): the message names the count.
reset_overrides ==
    /\ overrides' = ResetOverrides(overrides)
    /\ last' = [op |-> "reset_overrides", raised |-> FALSE,
                count |-> ResetCount(overrides)]
    /\ UNCHANGED <<last_results, clock, heap, refs, service>>

\* A call of compare_scenarios(scenario_a, scenario_b, metrics).
compare_scenarios(scenario_a, scenario_b, metrics) ==
    LET r == CompareScenarios(State, scenario_a, scenario_b, metrics)
    IN  /\ r.st.clock <= MaxClock
        /\ overrides' = r.st.overrides
        /\ last_results' = r.st.last_results
        /\ clock' = r.st.clock
        /\ last' = IF r.raised
                   THEN [op |-> "compare_scenarios", scenario_a |-> scenario_a,
                         scenario_b |-> scenario_b, metrics |-> metrics,
                         raised |-> TRUE, error |-> r.error]
                   ELSE [op |-> "compare_scenarios", scenario_a |-> scenario_a,
                         scenario_b |-> scenario_b, metrics |-> metrics,
                         raised |-> FALSE, comparison |-> r.comparison]
        /\ UNCHANGED <<heap, refs, service>>

Next ==
    \/ \E name \in CallNames, call \in CallOverrides : run_scenario(name, call)
    \/ \E arg \in OverrideArgs, field \in Fields :
            override_input(arg.source, field, arg.value)
    \/ reset_overrides
    \/ \E scenario_a \in CallNames, scenario_b \in CallNames, metrics \in MetricsArgs :
            compare_scenarios(scenario_a, scenario_b, metrics)

Spec == Init /\ [][Next]_vars

\* ------------------------------------------------- a Runner that may raise

\* The exception a failing model function raises inside the Runner.
RunnerFailure == [type |-> "RuntimeError"]

\* RunScenarioMayRaise dropping the scenario's cached result when the Runner
\* raises.
RunScenarioMayRaiseEvicts(st, name, call, runner_raises) ==
    IF name \in DOMAIN ScenarioDict /\ runner_raises
    THEN [st |-> [st EXCEPT !.last_results =
                        [n \in (DOMAIN st.last_results) \ {name}
                            |-> st.last_results[n]]],
          raised |-> TRUE, error |-> RunnerFailure, runner_calls |-> 1]
    ELSE RunScenario(st, name, call)
            @@ [runner_calls |-> IF name \in DOMAIN ScenarioDict THEN 1 ELSE 0]

\* RunScenarioMayRaise calling the Runner again after it raised.
RunScenarioMayRaiseRetries(st, name, call, runner_raises) ==
    RunScenario(st, name, call)
        @@ [runner_calls |-> IF name \in DOMAIN ScenarioDict
                             THEN (IF runner_raises THEN 2 ELSE 1) ELSE 0]

\* ModelService.run_scenario with a Runner whose model function raises when
\* runner_raises: the lookup (lines 72-75) comes first, then the one call of
\* self._runner.run (line 85), outside any try; an exception leaves before
\* the cache assignment (line 86) and before the Runner reads the time.
\* runner_calls counts the calls of self._runner.run.
RunScenarioMayRaise(st, name, call, runner_raises) ==
    IF name \in DOMAIN ScenarioDict /\ runner_raises
    THEN [st |-> st, raised |-> TRUE, error |-> RunnerFailure, runner_calls |-> 1]
    ELSE RunScenario(st, name, call)
            @@ [runner_calls |-> IF name \in DOMAIN ScenarioDict THEN 1 ELSE 0]

\* A call of run_scenario(name, overrides=call) with such a Runner.
run_scenario_may_raise(name, call, runner_raises) ==
    LET r == RunScenarioMayRaise(State, name, call, runner_raises)
    IN  /\ r.st.clock <= MaxClock
        /\ overrides' = r.st.overrides
        /\ last_results' = r.st.last_results
        /\ clock' = r.st.clock
        /\ last' = IF r.raised
                   THEN [op |-> "run_scenario", name |-> name, overrides |-> call,
                         runner_raises |-> runner_raises,
                         runner_calls |-> r.runner_calls,
                         raised |-> TRUE, error |-> r.error]
                   ELSE [op |-> "run_scenario", name |-> name, overrides |-> call,
                         runner_raises |-> runner_raises,
                         runner_calls |-> r.runner_calls,
                         raised |-> FALSE, result |-> r.result]
        /\ UNCHANGED <<heap, refs, service>>

NextRunner ==
    \/ \E name \in CallNames, call \in CallOverrides, runner_raises \in BOOLEAN :
            run_scenario_may_raise(name, call, runner_raises)
    \/ \E arg \in OverrideArgs, field \in Fields :
            override_input(arg.source, field, arg.value)
    \/ reset_overrides

SpecRunner == Init /\ [][NextRunner]_vars

\* ------------------------------------------- the Comparison Engine alone

\* Values a model function may return for the output "value": None, floats
\* (0.0, 100.0, 93.5, -3.0), bools, the texts "0", "93.5" and "abc", and [].
OutputValues ==
    {None, PyFloat(0), PyFloat(10000), PyFloat(9350), PyFloat(-300),
     PyBool(FALSE), PyBool(TRUE),
     PyStr(<<"0">>), PyStr(<<"9", "3", ".", "5">>), PyStr(<<"a", "b", "c">>),
     PyList(<<>>)}

\* Output dicts of a model function: "value" absent or one of OutputValues,
\* "nav" absent or 3.0.
OutputDicts ==
    {DictUpdate(v, n) :
        v \in {<<>>} \cup {("value" :> x) : x \in OutputValues},
        n \in {<<>>, ("nav" :> PyFloat(300))}}

\* A ScenarioResult of the scenario with these outputs.
ResultWith(name, outputs, now) ==
    [scenario_name |-> name,
     inputs_used |-> DictUpdate(BaseInputs, ScenarioDict[name].overrides),
     outputs |-> outputs,
     overrides_applied |-> ScenarioDict[name].overrides,
     run_at |-> now]

\* Two results a Runner has returned to compare_scenarios, and its metrics.
InitEngine ==
    /\ overrides = <<>>
    /\ last_results = <<>>
    /\ clock = 0
    /\ heap = <<>>
    /\ refs = <<>>
    /\ service = None
    /\ \E a \in OutputDicts, b \in OutputDicts, metrics \in MetricsArgs :
            last = [op |-> "results", result_a |-> ResultWith("base", a, 0),
                    result_b |-> ResultWith("stress", b, 1), metrics |-> metrics]

\* compare_scenarios from line 117 on, for the two results.
compare_results ==
    /\ last.op = "results"
    /\ LET c == Comparison(last.result_a, last.result_b, last.metrics)
       IN  last' = IF c.raised
                   THEN [op |-> "comparison", result_a |-> last.result_a,
                         result_b |-> last.result_b, metrics |-> last.metrics,
                         raised |-> TRUE, error |-> c.error]
                   ELSE [op |-> "comparison", result_a |-> last.result_a,
                         result_b |-> last.result_b, metrics |-> last.metrics,
                         raised |-> FALSE, comparison |-> c.comparison]
    /\ UNCHANGED <<overrides, last_results, clock, heap, refs, service>>

NextEngine == compare_results

SpecEngine == InitEngine /\ [][NextEngine]_vars

\* ---------------------------------------------- override_input on a store

\* The Override Store after override_input calls for these fields in this
\* order, the last of them one reading before the clock's first reading
\* here, 0.
StoreOfOrder(fs) ==
    [i \in 1..Len(fs) |->
        [source |-> "rates", field |-> fs[i], value |-> 55,
         applied_at |-> i - 1 - Len(fs)]]

\* A service whose store holds Overrides applied earlier: a caller has
\* overridden some of three fields, each once, in some order (three, so that
\* two stay when the third is overridden again).
InitStore ==
    /\ overrides \in
          {StoreOfOrder(fs) :
             fs \in {gs \in UNION {[1..n -> {"rate", "vol", "spread"}] : n \in 0..3} :
                       \A i, j \in 1..Len(gs) : i # j => gs[i] # gs[j]}}
    /\ last_results = <<>>
    /\ clock = 0
    /\ last = [op |-> "init"]
    /\ heap = <<>>
    /\ refs = <<>>
    /\ service = None

NextStore ==
    \E arg \in OverrideArgs, field \in {"rate", "vol", "spread"} :
        override_input(arg.source, field, arg.value)

SpecStore == InitStore /\ [][NextStore]_vars

\* ------------------------------------------------ the objects of a wiring

\* The names that refer to a mutable list or dict: the Runner's _base_inputs,
\* the Repository's _scenarios, the overrides dict of each scenario
\* definition, _overrides and _last_results of two ModelService instances
\* built on that Runner and Repository, the list and the dict a caller got
\* from the queries, and the dict a caller passed as overrides.
Slots ==
    <<"base_inputs", "scenarios", "base.overrides", "stress.overrides",
      "one._overrides", "one._last_results",
      "two._overrides", "two._last_results",
      "held_list", "held_dict", "call">>

\* The two service instances.
Instances == {"one", "two"}

\* The name of each instance's attributes.
Attr ==
    [one |-> [overrides |-> "one._overrides", last_results |-> "one._last_results"],
     two |-> [overrides |-> "two._overrides", last_results |-> "two._last_results"]]

\* The name of each scenario definition's overrides dict.
OverridesSlot == [base |-> "base.overrides", stress |-> "stress.overrides"]

\* An id no object of the heap h has.
Fresh(h) == CHOOSE i \in 1..(Cardinality(DOMAIN h) + 1) : i \notin DOMAIN h

\* A new object with contents v: the heap with it, and its id.
New(h, v) == [heap |-> (Fresh(h) :> v) @@ h, id |-> Fresh(h)]

\* list(x), dict(x): a new object with the contents of object id.
Copy(h, id) == New(h, h[id])

\* x.update(e) on the dict object id, in place.
Update(h, id, e) == [h EXCEPT ![id] = DictUpdate(h[id], h[e])]

\* The first slot that refers to the object slot s refers to.
FirstSlot(r, s) ==
    CHOOSE j \in 1..Len(Slots) :
        /\ r[Slots[j]] = r[s]
        /\ \A k \in 1..(j - 1) : r[Slots[k]] # r[s]

\* The objects some slot refers to, each renumbered to the index of the
\* first slot that refers to it; objects no slot refers to are dropped.
Normalise(h, r) ==
    [refs |-> [s \in DOMAIN r |-> IF r[s] = 0 THEN 0 ELSE FirstSlot(r, s)],
     heap |-> [i \in {FirstSlot(r, s) : s \in {t \in DOMAIN r : r[t] # 0}}
                  |-> h[r[Slots[i]]]]]

\* The wiring before any service is constructed: the Runner's base inputs,
\* the Repository's list of scenarios (by name) and their overrides dicts.
WiringObjects ==
    [heap |-> <<BaseInputs, Available,
                ScenarioDict["base"].overrides, ScenarioDict["stress"].overrides>>,
     refs |-> [s \in {Slots[i] : i \in 1..Len(Slots)} |->
                 IF s = "base_inputs" THEN 1
                 ELSE IF s = "scenarios" THEN 2
                 ELSE IF s = "base.overrides" THEN 3
                 ELSE IF s = "stress.overrides" THEN 4
                 ELSE 0]]

\* NewService giving the second instance the list and dict of the first.
NewServiceShared(o, s) ==
    IF o.refs["one._overrides"] # 0
    THEN [heap |-> o.heap,
          refs |-> [o.refs EXCEPT ![Attr[s].overrides] = o.refs["one._overrides"],
                                  ![Attr[s].last_results] = o.refs["one._last_results"]]]
    ELSE [heap |-> New(New(o.heap, <<>>).heap, <<>>).heap,
          refs |-> [o.refs EXCEPT ![Attr[s].overrides] = New(o.heap, <<>>).id,
                                  ![Attr[s].last_results] =
                                        New(New(o.heap, <<>>).heap, <<>>).id]]

\* ModelService.__init__ for instance s on the objects o: self._overrides is
\* a new list and self._last_results a new dict.
NewService(o, s) ==
    [heap |-> New(New(o.heap, <<>>).heap, <<>>).heap,
     refs |-> [o.refs EXCEPT ![Attr[s].overrides] = New(o.heap, <<>>).id,
                             ![Attr[s].last_results] =
                                   New(New(o.heap, <<>>).heap, <<>>).id]]

\* ObjRunnerRun updating the Runner's base inputs themselves.
ObjRunnerRunOnBase(h, r, name, extra, now) ==
    [heap |-> Update(Update(h, r["base_inputs"], r[OverridesSlot[name]]),
                     r["base_inputs"], extra),
     result |-> RunnerRun(ScenarioDict[name], h[extra], now)]

\* FunctionalScenarioRunner.run on the objects: inputs is a new dict (line
\* 71) and both updates go to it (72-73); overrides_applied is a new dict
\* (81). extra is the id of the dict passed as extra_overrides.
ObjRunnerRun(h, r, name, extra, now) ==
    LET inputs == Copy(h, r["base_inputs"])
        updated == Update(Update(inputs.heap, inputs.id, r[OverridesSlot[name]]),
                          inputs.id, extra)
    IN  [heap |-> updated,
         result |-> [scenario_name |-> name,
                     inputs_used |-> updated[inputs.id],
                     outputs |-> model_fn(updated[inputs.id]),
                     overrides_applied |->
                        DictUpdate(updated[r[OverridesSlot[name]]], updated[extra]),
                     run_at |-> now]]

\* combined (lines 79-83): a new dict filled from the Override Store, then
\* updated with the dict passed as overrides when that is not None or empty.
\* call is the id of that dict, 0 for None.
ObjCombined(h, r, s, call) ==
    LET combined == New(h, SessionDict(h[r[Attr[s].overrides]]))
    IN  IF call # 0 /\ DOMAIN h[call] # {}
        THEN [heap |-> Update(combined.heap, combined.id, call), id |-> combined.id]
        ELSE combined

\* ModelRepository.get_scenarios: a new list, list(self._scenarios).
GetScenarios(h, r) == Copy(h, r["scenarios"])

\* The list object id of heap h holds no scenario of this name.
Unlisted(h, id, name) == \A i \in 1..Len(h[id]) : h[id][i] # name

\* ModelService.run_scenario of instance s on the objects: the catalog is
\* read from a copy of the Repository's list (in_memory.py line 34), the
\* result is stored into the instance's cache dict in place (line 86).
ObjRunScenario(h, r, s, name, call, now) ==
    IF Unlisted(GetScenarios(h, r).heap, GetScenarios(h, r).id, name)
    THEN [heap |-> h, raised |-> TRUE]
    ELSE LET combined == ObjCombined(h, r, s, call)
             ran == ObjRunnerRun(combined.heap, r, name, combined.id, now)
         IN  [heap |-> [ran.heap EXCEPT ![r[Attr[s].last_results]] =
                            DictUpdate(@, name :> ran.result)],
              raised |-> FALSE, result |-> ran.result]

\* ModelService.override_input of instance s on the objects: a new list
\* without the field's Overrides is bound to self._overrides (line 94) and
\* the new Override is appended to it (line 95).
ObjOverrideInput(h, r, s, source, field, value, now) ==
    LET filtered == New(h, WithoutField(h[r[Attr[s].overrides]], field))
    IN  [heap |-> [filtered.heap EXCEPT ![filtered.id] =
                      Append(@, [source |-> source, field |-> field,
                                 value |-> value, applied_at |-> now])],
         refs |-> [r EXCEPT ![Attr[s].overrides] = filtered.id]]

\* ModelService.reset_overrides of instance s on the objects: a new empty
\* list is bound to self._overrides (line 101).
ObjResetOverrides(h, r, s) ==
    [heap |-> New(h, <<>>).heap,
     refs |-> [r EXCEPT ![Attr[s].overrides] = New(h, <<>>).id]]

\* ObjGetActiveOverrides returning the Override Store itself.
ObjGetActiveOverridesItself(h, r, s) ==
    [heap |-> h, refs |-> [r EXCEPT !["held_list"] = r[Attr[s].overrides]]]

\* ModelService.get_active_overrides of instance s: the caller gets a new
\* list, list(self._overrides).
ObjGetActiveOverrides(h, r, s) ==
    [heap |-> Copy(h, r[Attr[s].overrides]).heap,
     refs |-> [r EXCEPT !["held_list"] = Copy(h, r[Attr[s].overrides]).id]]

\* ModelService.get_current_results of instance s: the caller gets a new
\* dict, dict(self._last_results).
ObjGetCurrentResults(h, r, s) ==
    [heap |-> Copy(h, r[Attr[s].last_results]).heap,
     refs |-> [r EXCEPT !["held_dict"] = Copy(h, r[Attr[s].last_results]).id]]

\* The heap and the references after an operation left them as o.
Becomes(o) ==
    /\ heap' = Normalise(o.heap, o.refs).heap
    /\ refs' = Normalise(o.heap, o.refs).refs

\* Two services constructed on one Runner and one Repository.
InitObjects ==
    /\ overrides = <<>>
    /\ last_results = <<>>
    /\ clock = 0
    /\ last = [op |-> "init"]
    /\ heap = NewService(NewService(WiringObjects, "one"), "two").heap
    /\ refs = NewService(NewService(WiringObjects, "one"), "two").refs
    /\ service = None

\* A caller passes a new dict with these contents, or None (id 0).
Passed(h, call) == IF call = None THEN [heap |-> h, id |-> 0] ELSE New(h, call)

\* A call of run_scenario(name, overrides=call) on instance s.
obj_run_scenario(s, name, call) ==
    LET passed == Passed(heap, call)
        ran == ObjRunScenario(passed.heap, [refs EXCEPT !["call"] = passed.id],
                              s, name, passed.id, clock)
    IN  /\ ran.raised \/ clock < MaxClock
        /\ Becomes([heap |-> ran.heap, refs |-> [refs EXCEPT !["call"] = passed.id]])
        /\ clock' = IF ran.raised THEN clock ELSE clock + 1
        /\ last' = IF ran.raised
                   THEN [op |-> "run_scenario", on |-> s, name |-> name,
                         overrides |-> call, raised |-> TRUE]
                   ELSE [op |-> "run_scenario", on |-> s, name |-> name,
                         overrides |-> call, raised |-> FALSE,
                         result |-> ran.result]
        /\ UNCHANGED <<overrides, last_results, service>>

\* A call of compare_scenarios(scenario_a, scenario_b) on instance s: the two
\* runs (lines 114-115); the rest of the call touches no object.
obj_compare_scenarios(s, scenario_a, scenario_b) ==
    LET ra == ObjRunScenario(heap, refs, s, scenario_a, 0, clock)
        rb == ObjRunScenario(ra.heap, refs, s, scenario_b, 0, clock + 1)
    IN  /\ ra.raised \/ clock + 1 < MaxClock
        /\ Becomes([heap |-> IF ra.raised THEN ra.heap ELSE rb.heap, refs |-> refs])
        /\ clock' = IF ra.raised THEN clock
                    ELSE IF rb.raised THEN clock + 1 ELSE clock + 2
        /\ last' = [op |-> "compare_scenarios", on |-> s,
                    scenario_a |-> scenario_a, scenario_b |-> scenario_b,
                    raised |-> IF ra.raised THEN TRUE ELSE rb.raised]
        /\ UNCHANGED <<overrides, last_results, service>>

\* A call of override_input(source, field, value) on instance s.
obj_override_input(s, source, field, value) ==
    /\ clock < MaxClock
    /\ Becomes(ObjOverrideInput(heap, refs, s, source, field, value, clock))
    /\ clock' = clock + 1
    /\ last' = [op |-> "override_input", on |-> s, source |-> source,
                field |-> field, value |-> value, raised |-> FALSE]
    /\ UNCHANGED <<overrides, last_results, service>>

\* A call of reset_overrides() on instance s.
obj_reset_overrides(s) ==
    /\ Becomes(ObjResetOverrides(heap, refs, s))
    /\ last' = [op |-> "reset_overrides", on |-> s, raised |-> FALSE]
    /\ UNCHANGED <<overrides, last_results, clock, service>>

\* A call of get_active_overrides() on instance s; the caller keeps the list.
obj_get_active_overrides(s) ==
    /\ Becomes(ObjGetActiveOverrides(heap, refs, s))
    /\ last' = [op |-> "get_active_overrides", on |-> s, raised |-> FALSE]
    /\ UNCHANGED <<overrides, last_results, clock, service>>

\* A call of get_current_results() on instance s; the caller keeps the dict.
obj_get_current_results(s) ==
    /\ Becomes(ObjGetCurrentResults(heap, refs, s))
    /\ last' = [op |-> "get_current_results", on |-> s, raised |-> FALSE]
    /\ UNCHANGED <<overrides, last_results, clock, service>>

\* The Override a caller makes to put into a list it holds.
CallerOverride == [source |-> "caller", field |-> "rate", value |-> 0, applied_at |-> 0]

\* The result a caller makes to put into a dict it holds.
CallerResult ==
    [scenario_name |-> "base", inputs_used |-> <<>>, outputs |-> <<>>,
     overrides_applied |-> <<>>, run_at |-> 0]

\* The caller appends an Override of its own to the list it holds.
caller_append ==
    /\ refs["held_list"] # 0
    /\ \A i \in 1..Len(heap[refs["held_list"]]) :
            heap[refs["held_list"]][i] # CallerOverride
    /\ Becomes([heap |-> [heap EXCEPT ![refs["held_list"]] = Append(@, CallerOverride)],
                refs |-> refs])
    /\ last' = [op |-> "caller_append", raised |-> FALSE]
    /\ UNCHANGED <<overrides, last_results, clock, service>>

\* The caller removes the first element of the list it holds.
caller_pop ==
    /\ refs["held_list"] # 0
    /\ heap[refs["held_list"]] # <<>>
    /\ Becomes([heap |-> [heap EXCEPT ![refs["held_list"]] = Tail(@)], refs |-> refs])
    /\ last' = [op |-> "caller_pop", raised |-> FALSE]
    /\ UNCHANGED <<overrides, last_results, clock, service>>

\* The caller stores a result of its own under "base" in the dict it holds.
caller_setitem ==
    /\ refs["held_dict"] # 0
    /\ DictGet(heap[refs["held_dict"]], "base") # CallerResult
    /\ Becomes([heap |-> [heap EXCEPT ![refs["held_dict"]] =
                              DictUpdate(@, "base" :> CallerResult)],
                refs |-> refs])
    /\ last' = [op |-> "caller_setitem", raised |-> FALSE]
    /\ UNCHANGED <<overrides, last_results, clock, service>>

\* The caller deletes a key of the dict it holds.
caller_delitem(name) ==
    /\ refs["held_dict"] # 0
    /\ name \in DOMAIN heap[refs["held_dict"]]
    /\ Becomes([heap |-> [heap EXCEPT ![refs["held_dict"]] =
                              [n \in (DOMAIN @) \ {name} |-> @[n]]],
                refs |-> refs])
    /\ last' = [op |-> "caller_delitem", name |-> name, raised |-> FALSE]
    /\ UNCHANGED <<overrides, last_results, clock, service>>

\* The scenarios run on the objects: one whose definition has overrides and
\* an unknown one.
ObjNames == {"stress", "does_not_exist"}

\* The overrides passed to these runs: None, or a dict for "vol".
ObjCalls == {None, [vol |-> 65]}

\* One service, its queries, and a caller changing what the queries returned.
NextQueries ==
    \/ \E name \in ObjNames : obj_run_scenario("one", name, None)
    \/ \E field \in Fields : obj_override_input("one", "rates", field, 55)
    \/ obj_reset_overrides("one")
    \/ obj_get_active_overrides("one")
    \/ obj_get_current_results("one")
    \/ caller_append
    \/ caller_pop
    \/ caller_setitem
    \/ \E name \in ObjNames : caller_delitem(name)

SpecQueries == InitObjects /\ [][NextQueries]_vars

\* One service and the objects of the Repository, the Runner and the caller.
NextWiring ==
    \/ \E name \in ObjNames, call \in ObjCalls : obj_run_scenario("one", name, call)
    \/ \E scenario_a \in ObjNames, scenario_b \in ObjNames :
            obj_compare_scenarios("one", scenario_a, scenario_b)
    \/ \E field \in Fields : obj_override_input("one", "rates", field, 55)
    \/ obj_reset_overrides("one")

SpecWiring == InitObjects /\ [][NextWiring]_vars

\* Two services on one Repository and one Runner.
NextInstances ==
    \/ \E s \in Instances, name \in ObjNames : obj_run_scenario(s, name, None)
    \/ \E s \in Instances, scenario_a \in ObjNames, scenario_b \in ObjNames :
            obj_compare_scenarios(s, scenario_a, scenario_b)
    \/ \E s \in Instances, field \in Fields :
            obj_override_input(s, "rates", field, 55)
    \/ \E s \in Instances : obj_reset_overrides(s)

SpecInstances == InitObjects /\ [][NextInstances]_vars

\* The contents of the Override Store and of the cache of instance s.
StoreOf(h, r, s) == h[r[Attr[s].overrides]]

CacheOf(h, r, s) == h[r[Attr[s].last_results]]

\* ------------------------------------------------ the MCP server's service

\* The sessions calling the tools and reading the resources of one server.
Callers == {"session_1", "session_2"}

\* _get_service() with per-session services, which the server does not have.
GetServicePerCaller(c) == IF c = "session_1" THEN "one" ELSE "two"

\* _get_service(): the module-level _service, set to service "one" by
\* set_service, whichever session asks.
GetService(c) == "one"

\* The values the sessions override inputs to.
McpValues == {45, 55}

\* The source each session passes to override_input, its own.
SourceOf(c) == IF c = "session_1" THEN "rates" ELSE "user"

\* The tool run_scenario(name) called by session c.
mcp_run_scenario(c, name) ==
    LET ran == ObjRunScenario(heap, refs, GetService(c), name, 0, clock)
    IN  /\ ran.raised \/ clock < MaxClock
        /\ Becomes([heap |-> ran.heap, refs |-> refs])
        /\ clock' = IF ran.raised THEN clock ELSE clock + 1
        /\ last' = IF ran.raised
                   THEN [op |-> "run_scenario", caller |-> c, name |-> name,
                         raised |-> TRUE]
                   ELSE [op |-> "run_scenario", caller |-> c, name |-> name,
                         raised |-> FALSE, result |-> ran.result]
        /\ UNCHANGED <<overrides, last_results, service>>

\* The tool override_input(source, field, value) called by session c.
mcp_override_input(c, source, field, value) ==
    /\ clock < MaxClock
    /\ Becomes(ObjOverrideInput(heap, refs, GetService(c), source, field, value, clock))
    /\ clock' = clock + 1
    /\ last' = [op |-> "override_input", caller |-> c, source |-> source,
                field |-> field, value |-> value, raised |-> FALSE]
    /\ UNCHANGED <<overrides, last_results, service>>

\* The tool reset_overrides() called by session c.
mcp_reset_overrides(c) ==
    /\ Becomes(ObjResetOverrides(heap, refs, GetService(c)))
    /\ last' = [op |-> "reset_overrides", caller |-> c, raised |-> FALSE]
    /\ UNCHANGED <<overrides, last_results, clock, service>>

\* The resource model://results/latest read by session c: the results of
\* get_current_results(), by scenario name.
mcp_get_latest_results(c) ==
    /\ last' = [op |-> "get_latest_results", caller |-> c, raised |-> FALSE,
                results |-> GetCurrentResults(CacheOf(heap, refs, GetService(c)))]
    /\ UNCHANGED <<overrides, last_results, clock, heap, refs, service>>

\* Two sessions on one server.
NextShared ==
    \/ \E c \in Callers, name \in ObjNames : mcp_run_scenario(c, name)
    \/ \E c \in Callers, field \in Fields, value \in McpValues :
            mcp_override_input(c, SourceOf(c), field, value)
    \/ \E c \in Callers : mcp_reset_overrides(c)
    \/ \E c \in Callers : mcp_get_latest_results(c)

SpecShared == InitObjects /\ [][NextShared]_vars

\* ---------------------------------------------------------- ToolDispatcher

\* self._handlers: the registered tool names.
HandlerNames ==
    {"run_scenario", "override_input", "reset_overrides", "compare_scenarios",
     "get_available_scenarios"}

\* The parameters of each handler: those without a default and those with.
Parameters ==
    [run_scenario |-> [required |-> {"name"}, optional |-> {"overrides"}],
     override_input |-> [required |-> {"source", "field", "value"}, optional |-> {}],
     reset_overrides |-> [required |-> {}, optional |-> {}],
     compare_scenarios |-> [required |-> {"scenario_a", "scenario_b"},
                            optional |-> {"metrics"}],
     get_available_scenarios |-> [required |-> {}, optional |-> {}]]

\* handler(**arguments) binds: every required parameter is given and every
\* key is a parameter; otherwise the call raises TypeError before the
\* handler's body runs.
Binds(name, arguments) ==
    /\ Parameters[name].required \subseteq DOMAIN arguments
    /\ DOMAIN arguments \subseteq Parameters[name].required \cup Parameters[name].optional

\* The argument of a parameter, its default when it is not given.
Argument(arguments, k, default) ==
    IF k \in DOMAIN arguments THEN arguments[k] ELSE default

\* ScenarioResult.to_dict.
ResultToDict(result) ==
    [scenario_name |-> result.scenario_name,
     inputs_used |-> result.inputs_used,
     outputs |-> result.outputs,
     overrides_applied |-> result.overrides_applied,
     run_at |-> result.run_at]

\* ScenarioComparison.to_dict.
ComparisonToDict(comparison) ==
    [scenario_a |-> ResultToDict(comparison.scenario_a),
     scenario_b |-> ResultToDict(comparison.scenario_b),
     metrics |-> comparison.metrics,
     differences |-> comparison.differences]

\* ScenarioDefinition.to_dict, of the fields the catalog of the wiring has.
DefinitionToDict(scenario) ==
    [name |-> scenario.name, overrides |-> scenario.overrides]

\* str(exc): the message of the exception, without its type.
Str(error) ==
    IF error.type = "ValueError"
    THEN <<"Unknown scenario", error.name, "Available", error.available>>
    ELSE IF error.type = "ZeroDivisionError" THEN <<"float division by zero">>
    ELSE <<error.type>>

\* _run_scenario once the service has returned or raised as r.
RunScenarioHandled(r) ==
    IF r.raised THEN [st |-> r.st, raised |-> TRUE, error |-> r.error]
    ELSE [st |-> r.st, raised |-> FALSE, returned |-> ResultToDict(r.result)]

\* _compare_scenarios once the service has returned or raised as r.
CompareScenariosHandled(r) ==
    IF r.raised THEN [st |-> r.st, raised |-> TRUE, error |-> r.error]
    ELSE [st |-> r.st, raised |-> FALSE, returned |-> ComparisonToDict(r.comparison)]

\* _override_input: the service stores the Override; the dict repeats the
\* arguments beside the message.
OverrideInputHandled(st, source, field, value) ==
    [st |-> [overrides |-> OverrideInput(st.overrides, source, field, value, st.clock),
             last_results |-> st.last_results,
             clock |-> st.clock + 1],
     raised |-> FALSE,
     returned |-> [message |-> <<"Override applied", source, field, value>>,
                   source |-> source, field |-> field, value |-> value]]

\* _reset_overrides.
ResetOverridesHandled(st) ==
    [st |-> [overrides |-> ResetOverrides(st.overrides),
             last_results |-> st.last_results,
             clock |-> st.clock],
     raised |-> FALSE,
     returned |-> [message |-> <<"Cleared", ResetCount(st.overrides)>>]]

\* _get_available_scenarios.
GetAvailableScenariosHandled(st) ==
    [st |-> st, raised |-> FALSE,
     returned |-> [scenarios |-> [i \in 1..Len(Scenarios) |->
                                     DefinitionToDict(Scenarios[i])]]]

\* The handler of a registered tool on the service state st, its arguments
\* bound: the state after it and the dict it returned or the error it
\* raised.
Handler(st, name, arguments) ==
    IF name = "run_scenario"
    THEN RunScenarioHandled(RunScenario(st, arguments["name"],
                                        Argument(arguments, "overrides", None)))
    ELSE IF name = "override_input"
    THEN OverrideInputHandled(st, arguments["source"], arguments["field"],
                              arguments["value"])
    ELSE IF name = "reset_overrides"
    THEN ResetOverridesHandled(st)
    ELSE IF name = "compare_scenarios"
    THEN CompareScenariosHandled(
            CompareScenarios(st, arguments["scenario_a"], arguments["scenario_b"],
                             Argument(arguments, "metrics", None)))
    ELSE GetAvailableScenariosHandled(st)

\* The except clause of dispatch on what the handler did as h.
Caught(h) ==
    [st |-> h.st, raised |-> FALSE, service_calls |-> 1,
     returned |-> IF h.raised THEN [error |-> Str(h.error)] ELSE h.returned]

\* ToolDispatcher.dispatch on the service state st: the state after the
\* call, the dict returned (raised is FALSE: every Exception is caught) and
\* the number of calls of a service method.
Dispatch(st, name, arguments) ==
    IF name \notin HandlerNames
    THEN [st |-> st, raised |-> FALSE, service_calls |-> 0,
          returned |-> [error |-> <<"Unknown tool", name>>]]
    ELSE IF ~Binds(name, arguments)
    THEN [st |-> st, raised |-> FALSE, service_calls |-> 0,
          returned |-> [error |-> <<"TypeError", name>>]]
    ELSE Caught(Handler(st, name, arguments))

\* The tool names a provider may send: the registered ones and one that is
\* not.
ToolNames == HandlerNames \cup {"nonexistent_tool"}

\* The argument mappings a provider may send: complete ones, ones with an
\* argument missing, one with an argument no handler has, and names of
\* scenarios the catalog does not have.
ToolArguments ==
    { <<>>,
      [name |-> "base"],
      [name |-> "does_not_exist"],
      [name |-> "stress", overrides |-> [rate |-> 65]],
      [overrides |-> [rate |-> 65]],
      [source |-> "rates", field |-> "rate", value |-> 55],
      [source |-> "rates", field |-> "rate"],
      [scenario_a |-> "base", scenario_b |-> "stress"],
      [scenario_a |-> "base", scenario_b |-> "does_not_exist"],
      [scenario_a |-> "does_not_exist", scenario_b |-> "base"],
      [scenario_a |-> "base"],
      [name |-> "base", verbose |-> TRUE] }

\* The service and the record of the call after dispatch did d.
Dispatched(d, name, arguments) ==
    /\ d.st.clock <= MaxClock
    /\ overrides' = d.st.overrides
    /\ last_results' = d.st.last_results
    /\ clock' = d.st.clock
    /\ last' = [op |-> "dispatch", name |-> name, arguments |-> arguments,
                raised |-> d.raised, returned |-> d.returned,
                service_calls |-> d.service_calls]

\* A call of dispatch(name, arguments).
dispatch(name, arguments) ==
    /\ Dispatched(Dispatch(State, name, arguments), name, arguments)
    /\ UNCHANGED <<heap, refs, service>>

NextDispatch == \E name \in ToolNames, arguments \in ToolArguments : dispatch(name, arguments)

SpecDispatch == Init /\ [][NextDispatch]_vars

\* ------------------------------------------------ the MCP server's wiring

\* The error dict of a tool called while _service is None: _get_service
\* raises RuntimeError inside the tool's try.
NotWired ==
    [error |-> <<"ModelService has not been wired. Call set_service() before starting the server.">>]

\* _get_service() returning the first service constructed, whatever
\* set_service was given.
GetWiredServiceFirst(svc) == "one"

\* _get_service() when _service is not None: the instance set_service was
\* given.
GetWiredService(svc) == svc.instance

\* The ValueError of run_scenario for a name the catalog does not have.
UnknownScenario(name) == [type |-> "ValueError", name |-> name, available |-> Available]

\* json.dumps(v, indent=2): the text that json.loads reads back as v.
JsonDumps(v) == [json |-> v]

\* What a tool leaves and returns: the objects, the dict, and the readings
\* of the clock it took.
Answer(h, r, returned, ticks) ==
    [heap |-> h, refs |-> r, returned |-> returned, ticks |-> ticks]

\* The tool run_scenario once the service has returned or raised as ran.
RunScenarioAnswer(ran, r, name) ==
    IF ran.raised THEN Answer(ran.heap, r, [error |-> Str(UnknownScenario(name))], 0)
    ELSE Answer(ran.heap, r, ResultToDict(ran.result), 1)

\* The tool run_scenario(name).
ToolRunScenario(h, r, svc, name, now) ==
    IF svc = None THEN Answer(h, r, NotWired, 0)
    ELSE RunScenarioAnswer(ObjRunScenario(h, r, GetWiredService(svc), name, 0, now),
                           r, name)

\* The tool override_input(source, field, value).
ToolOverrideInput(h, r, svc, source, field, value, now) ==
    IF svc = None THEN Answer(h, r, NotWired, 0)
    ELSE Answer(ObjOverrideInput(h, r, GetWiredService(svc), source, field, value, now).heap,
                ObjOverrideInput(h, r, GetWiredService(svc), source, field, value, now).refs,
                [message |-> <<"Override applied", source, field, value>>,
                 source |-> source, field |-> field, value |-> value],
                1)

\* The tool reset_overrides().
ToolResetOverrides(h, r, svc) ==
    IF svc = None THEN Answer(h, r, NotWired, 0)
    ELSE Answer(ObjResetOverrides(h, r, GetWiredService(svc)).heap,
                ObjResetOverrides(h, r, GetWiredService(svc)).refs,
                [message |-> <<"Cleared", Len(StoreOf(h, r, GetWiredService(svc)))>>],
                0)

\* The tool compare_scenarios once both runs have returned and the
\* comparison was built or raised as c.
ComparisonAnswer(c, h, r) ==
    IF c.raised THEN Answer(h, r, [error |-> Str(c.error)], 2)
    ELSE Answer(h, r, ComparisonToDict(c.comparison), 2)

\* The tool compare_scenarios once the run of scenario_a has returned as ra
\* and the run of scenario_b has returned or raised as rb.
SecondRunAnswer(ra, rb, r, scenario_b) ==
    IF rb.raised THEN Answer(rb.heap, r, [error |-> Str(UnknownScenario(scenario_b))], 1)
    ELSE ComparisonAnswer(Comparison(ra.result, rb.result, None), rb.heap, r)

\* The tool compare_scenarios once the run of scenario_a has returned or
\* raised as ra.
FirstRunAnswer(ra, r, s, scenario_a, scenario_b, now) ==
    IF ra.raised THEN Answer(ra.heap, r, [error |-> Str(UnknownScenario(scenario_a))], 0)
    ELSE SecondRunAnswer(ra, ObjRunScenario(ra.heap, r, s, scenario_b, 0, now + 1),
                         r, scenario_b)

\* The tool compare_scenarios(scenario_a, scenario_b).
ToolCompareScenarios(h, r, svc, scenario_a, scenario_b, now) ==
    IF svc = None THEN Answer(h, r, NotWired, 0)
    ELSE FirstRunAnswer(ObjRunScenario(h, r, GetWiredService(svc), scenario_a, 0, now),
                        r, GetWiredService(svc), scenario_a, scenario_b, now)

\* The tool get_available_scenarios().
ToolGetAvailableScenarios(h, r, svc) ==
    IF svc = None THEN Answer(h, r, NotWired, 0)
    ELSE Answer(h, r,
                [scenarios |-> [i \in 1..Len(h[r["scenarios"]]) |->
                                   DefinitionToDict(ScenarioDict[h[r["scenarios"]][i]])]],
                0)

\* The resource model://overrides/current: Override.to_dict of each
\* Override of the store.
ResourceCurrentOverrides(h, r, svc) ==
    IF svc = None THEN Answer(h, r, JsonDumps(NotWired), 0)
    ELSE Answer(h, r,
                JsonDumps([i \in 1..Len(StoreOf(h, r, GetWiredService(svc))) |->
                              [source |-> StoreOf(h, r, GetWiredService(svc))[i].source,
                               field |-> StoreOf(h, r, GetWiredService(svc))[i].field,
                               value |-> StoreOf(h, r, GetWiredService(svc))[i].value,
                               applied_at |->
                                   StoreOf(h, r, GetWiredService(svc))[i].applied_at]]),
                0)

\* The text the prompt returns for a name the results do not have.
NoResultFound(scenario_name) ==
    <<"No result found for scenario", scenario_name,
      "Run it first using the run_scenario tool.">>

\* The text the prompt returns for a result: the schema's name, the
\* scenario's name and the result's inputs, overrides and outputs.
ExplainPrompt(scenario_name, result) ==
    <<"Explain the following scenario result", "Test Model", scenario_name,
      JsonDumps(result.inputs_used), JsonDumps(result.overrides_applied),
      JsonDumps(result.outputs)>>

\* The prompt running the scenario itself when the cache has no result.
PromptRunsWhenMissing(h, r, svc, scenario_name, now) ==
    IF svc = None THEN Answer(h, r, <<"Error generating prompt", NotWired.error>>, 0)
    ELSE IF scenario_name \notin DOMAIN CacheOf(h, r, GetWiredService(svc))
    THEN RunScenarioAnswer(ObjRunScenario(h, r, GetWiredService(svc), scenario_name, 0, now),
                           r, scenario_name)
    ELSE Answer(h, r,
                ExplainPrompt(scenario_name,
                              CacheOf(h, r, GetWiredService(svc))[scenario_name]),
                0)

\* The prompt explain_scenario_result(scenario_name): results is
\* get_current_results(), a copy of the cache that is dropped on return.
PromptExplainScenarioResult(h, r, svc, scenario_name, now) ==
    IF svc = None THEN Answer(h, r, <<"Error generating prompt", NotWired.error>>, 0)
    ELSE IF scenario_name \notin DOMAIN CacheOf(h, r, GetWiredService(svc))
    THEN Answer(h, r, NoResultFound(scenario_name), 0)
    ELSE Answer(h, r,
                ExplainPrompt(scenario_name,
                              CacheOf(h, r, GetWiredService(svc))[scenario_name]),
                0)

\* The objects, the clock and the record of a call that was answered by t.
Answered(t, op, arguments) ==
    /\ clock + t.ticks <= MaxClock
    /\ Becomes(t)
    /\ clock' = clock + t.ticks
    /\ last' = [op |-> op, arguments |-> arguments, raised |-> FALSE,
                returned |-> t.returned]

\* set_service(service) with the instance s.
set_service(s) ==
    /\ service' = [instance |-> s]
    /\ last' = [op |-> "set_service", arguments |-> [service |-> s], raised |-> FALSE]
    /\ UNCHANGED <<overrides, last_results, clock, heap, refs>>

\* The module's _service set back to None.
unset_service ==
    /\ service' = None
    /\ last' = [op |-> "unset_service", arguments |-> <<>>, raised |-> FALSE]
    /\ UNCHANGED <<overrides, last_results, clock, heap, refs>>

tool_run_scenario(name) ==
    /\ Answered(ToolRunScenario(heap, refs, service, name, clock),
                "run_scenario", [name |-> name])
    /\ UNCHANGED <<overrides, last_results, service>>

tool_override_input(source, field, value) ==
    /\ Answered(ToolOverrideInput(heap, refs, service, source, field, value, clock),
                "override_input", [source |-> source, field |-> field, value |-> value])
    /\ UNCHANGED <<overrides, last_results, service>>

tool_reset_overrides ==
    /\ Answered(ToolResetOverrides(heap, refs, service), "reset_overrides", <<>>)
    /\ UNCHANGED <<overrides, last_results, service>>

tool_compare_scenarios(scenario_a, scenario_b) ==
    /\ Answered(ToolCompareScenarios(heap, refs, service, scenario_a, scenario_b, clock),
                "compare_scenarios",
                [scenario_a |-> scenario_a, scenario_b |-> scenario_b])
    /\ UNCHANGED <<overrides, last_results, service>>

tool_get_available_scenarios ==
    /\ Answered(ToolGetAvailableScenarios(heap, refs, service),
                "get_available_scenarios", <<>>)
    /\ UNCHANGED <<overrides, last_results, service>>

resource_get_current_overrides ==
    /\ Answered(ResourceCurrentOverrides(heap, refs, service),
                "get_current_overrides", <<>>)
    /\ UNCHANGED <<overrides, last_results, service>>

prompt_explain_scenario_result(scenario_name) ==
    /\ Answered(PromptExplainScenarioResult(heap, refs, service, scenario_name, clock),
                "explain_scenario_result", [scenario_name |-> scenario_name])
    /\ UNCHANGED <<overrides, last_results, service>>

\* The MCP server module, two services that may be wired to it, and the
\* calls of its tools, its overrides resource and its explain prompt.
NextServer ==
    \/ \E s \in Instances : set_service(s)
    \/ unset_service
    \/ \E name \in ObjNames : tool_run_scenario(name)
    \/ \E field \in Fields, value \in McpValues :
            tool_override_input("rates", field, value)
    \/ tool_reset_overrides
    \/ \E scenario_a \in ObjNames, scenario_b \in ObjNames :
            tool_compare_scenarios(scenario_a, scenario_b)
    \/ tool_get_available_scenarios
    \/ resource_get_current_overrides
    \/ \E scenario_name \in ObjNames : prompt_explain_scenario_result(scenario_name)

SpecServer == InitObjects /\ [][NextServer]_vars

\* ------------------------------------------------------------ a chat turn

\* The provider requests of one turn.
MaxRequests == 3

\* AIMessage(role, content, tool_calls, tool_call_id, name): an optional
\* attribute is None or, when set to x, [v |-> x].
AIMessage(role, content, tool_calls, tool_call_id, name) ==
    [role |-> role, content |-> content, tool_calls |-> tool_calls,
     tool_call_id |-> tool_call_id, name |-> name]

\* The tools a provider asks for in a response, with their arguments: a
\* run, an override, and a tool that is not registered.
TurnCalls ==
    { [name |-> "run_scenario", arguments |-> [name |-> "stress"]],
      [name |-> "override_input",
       arguments |-> [source |-> "rates", field |-> "rate", value |-> 55]],
      [name |-> "nonexistent_tool", arguments |-> <<>>] }

\* The response of the provider to request k asking for these calls; the
\* id of a call tells the request and the call's place in it.
AIResponse(k, content, calls) ==
    [message |-> AIMessage("assistant", content,
                           IF calls = <<>> THEN None
                           ELSE [v |-> [i \in 1..Len(calls) |->
                                          [id |-> <<k, i>>, name |-> calls[i].name,
                                           arguments |-> calls[i].arguments]]],
                           None, None),
     tool_calls |-> [i \in 1..Len(calls) |->
                       [id |-> <<k, i>>, name |-> calls[i].name,
                        arguments |-> calls[i].arguments]]]

\* The message appended for the tool call tc that dispatch answered with
\* result.
ToolMessage(tc, result) ==
    AIMessage("tool", [v |-> JsonDumps(result)], None, [v |-> tc.id], [v |-> tc.name])

\* The turn going back to the provider as soon as one tool call of the
\* response is dispatched.
OneDispatched(l) == l.op = "dispatch" /\ l.index >= 1

\* The for loop over response.tool_calls has ended.
AllDispatched(l) == l.op = "dispatch" /\ l.index = Len(l.response.tool_calls)

\* A turn on a new service, the conversation holding the user's question.
InitTurn ==
    /\ overrides = <<>>
    /\ last_results = <<>>
    /\ clock = 0
    /\ last = [op |-> "turn", request |-> 0]
    /\ heap = << <<AIMessage("user", [v |-> "question"], None, None, None)>> >>
    /\ refs = [messages |-> 1]
    /\ service = None

\* response = provider.chat(messages, tools=TOOL_DEFINITIONS);
\* messages.append(response.message)
provider_chat(content, calls) ==
    /\ last.op = "turn" \/ AllDispatched(last)
    /\ last.request < MaxRequests
    /\ heap' = [heap EXCEPT ![refs["messages"]] =
                    Append(@, AIResponse(last.request + 1, content, calls).message)]
    /\ last' = [op |-> "chat", request |-> last.request + 1, sent |-> heap[refs["messages"]],
                response |-> AIResponse(last.request + 1, content, calls)]
    /\ UNCHANGED <<overrides, last_results, clock, refs, service>>

\* The service, the conversation and the record of the step after dispatch
\* answered tool call index of the response as d.
ToolCallDispatched(d, index) ==
    /\ d.st.clock <= MaxClock
    /\ overrides' = d.st.overrides
    /\ last_results' = d.st.last_results
    /\ clock' = d.st.clock
    /\ heap' = [heap EXCEPT ![refs["messages"]] =
                    Append(@, ToolMessage(last.response.tool_calls[index], d.returned))]
    /\ last' = [op |-> "dispatch", request |-> last.request, sent |-> last.sent,
                response |-> last.response, index |-> index,
                returned |-> d.returned]

\* One pass of the for loop: the next tool call of the response.
dispatch_tool_call ==
    /\ \/ last.op = "chat" /\ last.response.tool_calls # <<>>
       \/ last.op = "dispatch" /\ ~AllDispatched(last)
    /\ ToolCallDispatched(
          Dispatch(State,
                   last.response.tool_calls[IF last.op = "chat" THEN 1
                                            ELSE last.index + 1].name,
                   last.response.tool_calls[IF last.op = "chat" THEN 1
                                            ELSE last.index + 1].arguments),
          IF last.op = "chat" THEN 1 ELSE last.index + 1)
    /\ UNCHANGED <<refs, service>>

\* if not response.tool_calls: return response.message.content or ""
turn_return ==
    /\ last.op = "chat" /\ last.response.tool_calls = <<>>
    /\ last' = [op |-> "return", request |-> last.request,
                value |-> IF last.response.message.content = None THEN [v |-> ""]
                          ELSE last.response.message.content]
    /\ UNCHANGED <<overrides, last_results, clock, heap, refs, service>>

\* One turn: the provider answers with a content that is None or a text and
\* with no, one or two tool calls.
NextTurn ==
    \/ \E content \in {None, [v |-> "answer"]},
          calls \in UNION {[1..n -> TurnCalls] : n \in 0..2} :
            provider_chat(content, calls)
    \/ dispatch_tool_call
    \/ turn_return

SpecTurn == InitTurn /\ [][NextTurn]_vars

\* ------------------------------------------------------------------ claims

\* The last call was a run_scenario that returned a result.
Ran(l) == l.op = "run_scenario" /\ ~l.raised

\* The scenario definition of the catalog with this name.
Definition(name) ==
    Scenarios[CHOOSE i \in 1..Len(Scenarios) : Scenarios[i].name = name]

\* The indexes of the Overrides of the store ovs for field f.
OverridesFor(ovs, f) == {i \in 1..Len(ovs) : ovs[i].field = f}

\* call carries field f.
Passes(call, f) == call # None /\ f \in DOMAIN call

\* The layers of the precedence rule that set field f, highest first; each is
\* <<layer, value>>.
Layers(ovs, name, call, f) ==
    (IF Passes(call, f) THEN <<(<<"call", call[f]>>)>> ELSE <<>>)
    \o [i \in 1..Cardinality(OverridesFor(ovs, f)) |->
            <<"session", ovs[CHOOSE j \in OverridesFor(ovs, f) : TRUE].value>>]
    \o (IF f \in DOMAIN Definition(name).overrides
        THEN <<(<<"scenario", Definition(name).overrides[f]>>)>> ELSE <<>>)
    \o (IF f \in DOMAIN BaseInputs THEN <<(<<"base", BaseInputs[f]>>)>> ELSE <<>>)

\* inputs gives field f the value of the highest layer that sets it, and does
\* not hold f when no layer sets it.
FollowsPrecedence(inputs, ovs, name, call, f) ==
    LET ls == Layers(ovs, name, call, f)
    IN  IF ls = <<>> THEN f \notin DOMAIN inputs
        ELSE f \in DOMAIN inputs /\ inputs[f] = ls[1][2]

\* C1: the inputs used by run_scenario(name, call) give every field the call
\* override's value if the call has one, else the active session Override's,
\* else the scenario definition's, else the Runner's base input.
C1_Precedence ==
    [][Ran(last') =>
        /\ DOMAIN last'.result.inputs_used \subseteq Fields
        /\ \A f \in Fields :
              FollowsPrecedence(last'.result.inputs_used, overrides,
                                last'.name, last'.overrides, f)]_vars

\* C1 witness: a run of "stress" where the call, the session, the scenario and
\* the base inputs all set "rate".
C1_Witness ==
    /\ Ran(last) /\ last.name = "stress"
    /\ Len(Layers(overrides, "stress", last.overrides, "rate")) = 4

\* C2: the Override Store holds at most one Override per field name.
C2_OnePerField ==
    \A i, j \in 1..Len(overrides) :
        overrides[i].field = overrides[j].field => i = j

\* C2 witness: no run has happened, so the clock readings 0, 1 and 2 were all
\* taken by override_input; the Override applied at 1 is gone while the one
\* applied at 0 is still active, so the call at 2 replaced it.
C2_Witness ==
    /\ Len(overrides) = 2
    /\ overrides[1].applied_at = 0 /\ overrides[2].applied_at = 2
    /\ last_results = <<>>

\* C3: override_input(s, f, v1) followed by override_input(s, f, v2) leaves
\* exactly one active Override for f, and its value is v2.
C3_LastWriteWins ==
    [][(/\ last.op = "override_input" /\ last'.op = "override_input"
        /\ last'.field = last.field)
        => /\ Cardinality(OverridesFor(overrides', last'.field)) = 1
           /\ \A i \in OverridesFor(overrides', last'.field) :
                 overrides'[i].value = last'.value]_vars

\* C3 witness: the clock readings 0 and 1 were taken by override_input (no run
\* has happened, and a reset would have dropped both), the second call was for
\* the field of the first with another value, and it is the one active.
C3_Witness ==
    /\ last.op = "override_input" /\ last.value = 70
    /\ clock = 2 /\ last_results = <<>>
    /\ Len(overrides) = 1 /\ overrides[1].applied_at = 1 /\ overrides[1].value = 70

\* The Override Store with the timestamps left out.
Entries(ovs) ==
    [i \in 1..Len(ovs) |->
        [source |-> ovs[i].source, field |-> ovs[i].field, value |-> ovs[i].value]]

\* C4: applying override_input(s, f, v) a second time in a row leaves the
\* Override Store (timestamps ignored) and the result cache as the first
\* application left them.
C4_Idempotent ==
    [][(last.op = "override_input" /\ last' = last)
        => /\ Entries(overrides') = Entries(overrides)
           /\ last_results' = last_results]_vars

\* C4 witness: the state two override_input("rates", "vol", 5.5) in a row
\* reach from the initial state.
C4_Witness ==
    /\ last.op = "override_input" /\ last.field = "vol" /\ last.value = 55
    /\ clock = 2 /\ last_results = <<>>
    /\ Entries(overrides) = <<[source |-> "rates", field |-> "vol", value |-> 55]>>
    /\ overrides[1].applied_at = 1

\* The store ovs holds an Override of field f with value v.
Holds(ovs, f, v) == \E i \in OverridesFor(ovs, f) : ovs[i].value = v

\* The last call was a compare_scenarios that returned a comparison.
Compared(l) == l.op = "compare_scenarios" /\ ~l.raised

\* C5: after override_input(s, f, v) the store holds v for f; it keeps
\* holding it over every step that is neither reset_overrides nor an
\* override_input for f; and while it holds it, every run_scenario that
\* passes no call override for f (those inside compare_scenarios included)
\* uses v for f.
C5_SessionPersists ==
    [][/\ last'.op = "override_input"
            => Holds(overrides', last'.field, last'.value)
       /\ \A f \in Fields : \A i \in OverridesFor(overrides, f) :
            LET v == overrides[i].value
            IN  /\ (/\ last'.op # "reset_overrides"
                    /\ ~(last'.op = "override_input" /\ last'.field = f))
                      => Holds(overrides', f, v)
                /\ (Ran(last') /\ ~Passes(last'.overrides, f))
                      => /\ f \in DOMAIN last'.result.inputs_used
                         /\ last'.result.inputs_used[f] = v
                /\ Compared(last')
                      => /\ f \in DOMAIN last'.comparison.scenario_a.inputs_used
                         /\ last'.comparison.scenario_a.inputs_used[f] = v
                         /\ f \in DOMAIN last'.comparison.scenario_b.inputs_used
                         /\ last'.comparison.scenario_b.inputs_used[f] = v]_vars

\* C5 witness: an Override of "rate" applied at 0, then a run of "stress" at 1
\* and a run of "base" at 2, and the second run still uses its value.
C5_Witness ==
    /\ Ran(last) /\ last.name = "base" /\ ~Passes(last.overrides, "rate")
    /\ last.result.run_at = 2
    /\ "stress" \in DOMAIN last_results /\ last_results["stress"].run_at = 1
    /\ Len(overrides) = 1 /\ overrides[1].field = "rate"
    /\ overrides[1].applied_at = 0
    /\ last.result.inputs_used["rate"] = overrides[1].value

\* C6: reset_overrides empties the store, the store stays empty until the
\* next override_input, and while it is empty every run_scenario without call
\* overrides uses exactly the base inputs overlaid by the scenario
\* definition's overrides.
C6_ResetCompleteness ==
    [][/\ last'.op = "reset_overrides" => overrides' = <<>>
       /\ (overrides = <<>> /\ last'.op # "override_input") => overrides' = <<>>
       /\ (overrides = <<>> /\ Ran(last') /\ ~Truthy(last'.overrides))
            => /\ DOMAIN last'.result.inputs_used \subseteq Fields
               /\ \A f \in Fields :
                     FollowsPrecedence(last'.result.inputs_used, <<>>,
                                       last'.name, None, f)]_vars

\* C6 witness: "base" ran at 1 under a session Override of "rate" applied at
\* 0, the store was reset, and "stress" ran at 2 with the scenario's own rate.
C6_Witness ==
    /\ Ran(last) /\ last.name = "stress" /\ last.overrides = None
    /\ last.result.run_at = 2 /\ overrides = <<>>
    /\ last.result.inputs_used = [rate |-> 60]
    /\ "base" \in DOMAIN last_results /\ last_results["base"].run_at = 1
    /\ last_results["base"].inputs_used["rate"] \in {55, 70}

\* C7: reset_overrides empties the Override Store, and the count of its
\* confirmation is the number of Overrides active just before the call.
C7_ResetCount ==
    [][last'.op = "reset_overrides"
        => overrides' = <<>> /\ last'.count = Len(overrides)]_vars

\* C7 witness: a reset that cleared two Overrides.
C7_Witness == last.op = "reset_overrides" /\ last.count = 2 /\ overrides = <<>>

\* The cache entry of a name: <<result>>, or <<>> when there is none.
Entry(cache, n) == IF n \in DOMAIN cache THEN <<cache[n]>> ELSE <<>>

\* C8: a cache entry changes only in a step of run_scenario for its name or
\* of compare_scenarios naming it; reset_overrides and override_input leave
\* the whole cache as it is.
C8_CacheFrame ==
    [][/\ \A n \in CallNames :
            Entry(last_results', n) # Entry(last_results, n)
                => \/ last'.op = "run_scenario" /\ last'.name = n
                   \/ /\ last'.op = "compare_scenarios"
                      /\ n \in {last'.scenario_a, last'.scenario_b}
       /\ last'.op \in {"reset_overrides", "override_input"}
            => last_results' = last_results]_vars

\* C8 witness: "base" ran at 0 on the base inputs, an Override of "rate" was
\* applied at 1 and then reset, and the cached result is still that run's.
C8_Witness ==
    /\ last.op = "reset_overrides" /\ last.count = 1 /\ clock = 2
    /\ DOMAIN last_results = {"base"}
    /\ last_results["base"].run_at = 0
    /\ last_results["base"].inputs_used = [rate |-> 50]

\* What run_scenario(name) without call overrides would return in the service
\* state st, the timestamp left out.
WouldUse(st, name) ==
    LET r == RunScenario(st, name, None).result
    IN  <<r.inputs_used, r.outputs, r.overrides_applied>>

\* C9: run_scenario(name, call) leaves the Override Store unchanged, and a
\* run_scenario(name) after it uses what a run_scenario(name) before it would
\* have used.
C9_CallOverridesOneRun ==
    [][last'.op = "run_scenario"
        => /\ overrides' = overrides
           /\ ~last'.raised
                => WouldUse([overrides |-> overrides', last_results |-> last_results',
                             clock |-> clock'], last'.name)
                   = WouldUse(State, last'.name)]_vars

\* C9 witness: a run of "base" that passed a call override for "rate" while a
\* session Override of "rate" was active.
C9_Witness ==
    /\ Ran(last) /\ last.name = "base" /\ Passes(last.overrides, "rate")
    /\ Len(overrides) = 1 /\ overrides[1].field = "rate"
    /\ last.result.inputs_used["rate"] = last.overrides["rate"]

\* C10: after a successful run_scenario(name, ...) the cache entry for name is
\* the result the call returned, the cache holds one result per name, each
\* under its own scenario name, and the entries of the other names are
\* unchanged.
C10_MostRecentCached ==
    [][Ran(last') =>
        /\ DOMAIN last_results' = (DOMAIN last_results) \cup {last'.name}
        /\ last_results'[last'.name] = last'.result
        /\ \A n \in DOMAIN last_results' : last_results'[n].scenario_name = n
        /\ \A n \in (DOMAIN last_results) \ {last'.name} :
              last_results'[n] = last_results[n]]_vars

\* C10 witness: "stress" ran at 0 and "base" at 1 and again at 2; the cache
\* holds the run of "base" at 2 and still the run of "stress" at 0.
C10_Witness ==
    /\ Ran(last) /\ last.name = "base" /\ last.result.run_at = 2
    /\ DOMAIN last_results = {"base", "stress"}
    /\ last_results["base"] = last.result
    /\ last_results["stress"].run_at = 0
    /\ overrides = <<>>

\* The names of the Repository's catalog.
CatalogNames == {Scenarios[i].name : i \in 1..Len(Scenarios)}

\* The error is UnknownScenario for this name, listing every configured name.
IsUnknownScenario(error, name) ==
    /\ error.type = "ValueError"
    /\ error.name = name
    /\ {error.available[i] : i \in 1..Len(error.available)} = CatalogNames

\* C11: run_scenario with a name absent from the catalog, and
\* compare_scenarios with such a name on either side, raise UnknownScenario
\* carrying the attempted name and every configured name; they return no
\* result.
C11_UnknownScenario ==
    /\ (last.op = "run_scenario" /\ last.name \notin CatalogNames)
          => last.raised /\ IsUnknownScenario(last.error, last.name)
    /\ (last.op = "compare_scenarios" /\ last.scenario_a \notin CatalogNames)
          => last.raised /\ IsUnknownScenario(last.error, last.scenario_a)
    /\ (/\ last.op = "compare_scenarios" /\ last.scenario_a \in CatalogNames
        /\ last.scenario_b \notin CatalogNames)
          => last.raised /\ IsUnknownScenario(last.error, last.scenario_b)

\* C11 witness: compare_scenarios("base", "does_not_exist") has raised the
\* error for "does_not_exist".
C11_Witness ==
    /\ last.op = "compare_scenarios" /\ last.raised
    /\ last.scenario_a = "base" /\ last.scenario_b = "does_not_exist"
    /\ last.error.name = "does_not_exist"

\* C12: a run_scenario call that fails, for an unknown name or because the
\* Runner raises, leaves the Override Store and the result cache as they were.
C12_RunFailsAtomically ==
    [][(last'.op = "run_scenario" /\ last'.raised)
          => (overrides' = overrides /\ last_results' = last_results)]_vars

\* C12 witness: the Runner raised on "base" while the store holds an Override
\* and the cache holds an earlier result of "base".
C12_Witness ==
    /\ last.op = "run_scenario" /\ last.name = "base"
    /\ last.raised /\ last.error = RunnerFailure
    /\ overrides # <<>>
    /\ "base" \in DOMAIN last_results

\* C13, as claimed: a compare_scenarios call that fails leaves the result
\* cache and the Override Store as they were.
C13_CompareFailsAtomically ==
    [][(last'.op = "compare_scenarios" /\ last'.raised)
          => (overrides' = overrides /\ last_results' = last_results)]_vars

\* C14: a run_scenario call with a known name calls the Runner once, one
\* with an unknown name never calls it, and when the Runner raises the call
\* raises the Runner's exception (after that one call).
C14_PassThrough ==
    last.op = "run_scenario" =>
        /\ last.name \in CatalogNames => last.runner_calls = 1
        /\ last.name \notin CatalogNames => last.runner_calls = 0
        /\ (last.name \in CatalogNames /\ last.runner_raises)
              => (last.raised /\ last.error = RunnerFailure)

\* C14 witness: the Runner raised on "stress" and the caller got its
\* exception after one call.
C14_Witness ==
    /\ last.op = "run_scenario" /\ last.name = "stress"
    /\ last.runner_raises /\ last.raised
    /\ last.error = RunnerFailure /\ last.runner_calls = 1

\* C15: a compare_scenarios(A, B) that succeeds ran A at the time of the
\* call and B right after it; its scenario_b is the cached result for B and,
\* when A differs from B, its scenario_a is the cached result for A.
C15_RunsAThenB ==
    [][(last'.op = "compare_scenarios" /\ ~last'.raised) =>
          LET c == last'.comparison
          IN  /\ c.scenario_a.scenario_name = last'.scenario_a
              /\ c.scenario_b.scenario_name = last'.scenario_b
              /\ c.scenario_a.run_at = clock
              /\ c.scenario_b.run_at = clock + 1
              /\ Entry(last_results', last'.scenario_b) = <<c.scenario_b>>
              /\ last'.scenario_a # last'.scenario_b
                    => Entry(last_results', last'.scenario_a) = <<c.scenario_a>>]_vars

\* C15 witness: "stress" was compared with "base" at time 1: "stress" ran at
\* 1 and "base" at 2, and the cache holds these two results.
C15_Witness ==
    /\ Compared(last)
    /\ last.scenario_a = "stress" /\ last.scenario_b = "base"
    /\ last.comparison.scenario_a.run_at = 1
    /\ last.comparison.scenario_b.run_at = 2
    /\ Entry(last_results, "stress") = <<last.comparison.scenario_a>>
    /\ Entry(last_results, "base") = <<last.comparison.scenario_b>>

\* Name m comes before name n in alphabetical order.
Before(m, n) ==
    \E i, j \in 1..Len(NameOrder) : NameOrder[i] = m /\ NameOrder[j] = n /\ i < j

\* The engine has returned a comparison of the two results.
EngineCompared == last.op = "comparison" /\ ~last.raised

C17_ExactlyMetrics ==
    (Compared(last) /\ last.metrics # None) =>
        /\ last.comparison.metrics = last.metrics.v
        /\ DOMAIN last.comparison.differences = Elements(last.metrics.v)

\* The values float() converts, of those a model function may return here.
NumericValues ==
    {PyFloat(0), PyFloat(10000), PyFloat(9350), PyFloat(-300), PyFloat(300),
     PyBool(FALSE), PyBool(TRUE), PyStr(<<"0">>), PyStr(<<"9", "3", ".", "5">>)}

\* Both values are present and numeric.
BothNumeric(a, b) == a \in NumericValues /\ b \in NumericValues

\* The absolute value.
Abs(x) == IF x < 0 THEN -x ELSE x

\* C18, as claimed: for every compared metric whose values a and b are both
\* present and numeric, delta = b - a and, when a is not 0, percent_change
\* is (b - a) / a * 100.
C18_ExactArithmetic ==
    EngineCompared =>
        \A m \in DOMAIN last.comparison.differences :
            LET e == last.comparison.differences[m]
            IN  BothNumeric(e.a, e.b) =>
                  /\ e.delta = PyFloat(ToFloat(e.b) - ToFloat(e.a))
                  /\ ToFloat(e.a) # 0 =>
                        /\ e.pct_change # None
                        /\ e.pct_change.v * ToFloat(e.a)
                             = (ToFloat(e.b) - ToFloat(e.a)) * 10000

\* C18, amended: for every compared metric whose values a and b are both
\* present and numeric, delta = b - a and, when a is not 0, percent_change
\* is (b - a) / a * 100 rounded to the nearest hundredth (it differs from the
\* quotient by at most half a hundredth).
C18_RoundedArithmetic ==
    EngineCompared =>
        \A m \in DOMAIN last.comparison.differences :
            LET e == last.comparison.differences[m]
            IN  BothNumeric(e.a, e.b) =>
                  /\ e.delta = PyFloat(ToFloat(e.b) - ToFloat(e.a))
                  /\ ToFloat(e.a) # 0 =>
                        /\ e.pct_change # None
                        /\ e.pct_change.type = "float"
                        /\ 2 * Abs(e.pct_change.v * ToFloat(e.a)
                                   - (ToFloat(e.b) - ToFloat(e.a)) * 10000)
                             <= Abs(ToFloat(e.a))

\* C18 witness: a = -3.0 and b = 100.0 give delta 103.0 and percent_change
\* -3433.33, the quotient -3433.333... rounded.
C18_Witness ==
    /\ EngineCompared /\ "value" \in DOMAIN last.comparison.differences
    /\ last.comparison.differences["value"]
         = [a |-> PyFloat(-300), b |-> PyFloat(10000), delta |-> PyFloat(10300),
            pct_change |-> PyFloat(-343333)]

\* C19, as claimed: for every compared metric whose scenario-A value is a
\* numeric zero and whose scenario-B value is numeric, no error is raised,
\* percent_change is None and delta is b - a.
C19_ZeroGuard ==
    last.op = "comparison" =>
        \A m \in Elements(CompareMetrics(last.result_a, last.result_b,
                                          last.metrics)) :
            LET a == DictGet(last.result_a.outputs, m)
                b == DictGet(last.result_b.outputs, m)
            IN  (BothNumeric(a, b) /\ ToFloat(a) = 0) =>
                  /\ ~last.raised
                  /\ last.comparison.differences[m].pct_change = None
                  /\ last.comparison.differences[m].delta
                       = PyFloat(ToFloat(b) - ToFloat(a))

\* C20: in every comparison, each entry carries the raw values of the two
\* results; where either is missing or not numeric, delta and percent_change
\* are both None, and neither is non-None unless both are present and
\* numeric.
C20_GapsAreNulls ==
    EngineCompared =>
        \A m \in DOMAIN last.comparison.differences :
            LET e == last.comparison.differences[m]
            IN  /\ e.a = DictGet(last.result_a.outputs, m)
                /\ e.b = DictGet(last.result_b.outputs, m)
                /\ ~BothNumeric(e.a, e.b)
                      => e.delta = None /\ e.pct_change = None
                /\ (e.delta # None \/ e.pct_change # None)
                      => BothNumeric(e.a, e.b)

\* C20 witness: "value" is the text "abc" in result A and 93.5 in result B,
\* "nav" is missing from result B, and both entries are gaps.
C20_Witness ==
    /\ EngineCompared
    /\ DOMAIN last.comparison.differences = {"nav", "value"}
    /\ last.comparison.differences["value"]
         = [a |-> PyStr(<<"a", "b", "c">>), b |-> PyFloat(9350),
            delta |-> None, pct_change |-> None]
    /\ last.comparison.differences["nav"]
         = [a |-> PyFloat(300), b |-> None, delta |-> None, pct_change |-> None]

\* C21, as claimed: once both results are there, compare_scenarios returns a
\* comparison and raises no error, whatever the output values on either side.
C21_AlwaysCompletes == last.op = "comparison" => ~last.raised

\* The fields the three override layers of run_scenario(name, call) set.
OverrideFields(ovs, name, call) ==
    (DOMAIN Definition(name).overrides)
        \cup {ovs[i].field : i \in 1..Len(ovs)}
        \cup (IF call = None THEN {} ELSE DOMAIN call)

\* C22: the overrides_applied of a result of run_scenario(name, call) has as
\* keys the fields the scenario definition, the active session Overrides or
\* the call overrides set, each with the value of the highest of these layers
\* that sets it, and inputs_used is the base inputs overlaid by that mapping.
C22_OverridesApplied ==
    Ran(last) =>
        LET applied == last.result.overrides_applied
            inputs == last.result.inputs_used
        IN  /\ DOMAIN applied = OverrideFields(overrides, last.name, last.overrides)
            /\ \A f \in DOMAIN applied :
                  LET top == Layers(overrides, last.name, last.overrides, f)[1]
                  IN  top[1] # "base" /\ applied[f] = top[2]
            /\ DOMAIN inputs = (DOMAIN BaseInputs) \cup (DOMAIN applied)
            /\ \A f \in DOMAIN inputs :
                  inputs[f] = IF f \in DOMAIN applied THEN applied[f]
                              ELSE BaseInputs[f]

\* C22 witness: a run of "stress", whose definition sets "rate", with a
\* session Override of "rate" and a call override of "vol".
C22_Witness ==
    /\ Ran(last) /\ last.name = "stress"
    /\ last.overrides = [vol |-> 65]
    /\ Holds(overrides, "rate", 55)
    /\ last.result.overrides_applied = [rate |-> 55, vol |-> 65]

\* C24: get_active_overrides lists the Overrides in the order of the times
\* they were applied, and after override_input for field f it lists the
\* other fields as before, then f.
C24_OrderOfLastApplication ==
    [][LET got == GetActiveOverrides(overrides')
       IN  /\ \A i, j \in 1..Len(got) :
                 i < j => got[i].applied_at < got[j].applied_at
           /\ last'.op = "override_input" =>
                 /\ got # <<>>
                 /\ got[Len(got)].field = last'.field
                 /\ got[Len(got)].applied_at = clock
                 /\ SubSeq(got, 1, Len(got) - 1)
                      = SelectSeq(GetActiveOverrides(overrides),
                                  LAMBDA o : o.field # last'.field)]_vars

\* C24 witness: "rate" was applied last and is listed after "vol", whose
\* Override is the older one.
C24_Witness ==
    /\ last.op = "override_input" /\ last.field = "rate"
    /\ Len(GetActiveOverrides(overrides)) = 2
    /\ GetActiveOverrides(overrides)[1].field = "vol"
    /\ GetActiveOverrides(overrides)[1].applied_at = 1
    /\ GetActiveOverrides(overrides)[2].field = "rate"
    /\ GetActiveOverrides(overrides)[2].applied_at = 2

\* C25: override_input does not fail and stores the Override also when the
\* field is not an input of the schema, and a run gives every field with an
\* active Override that the call does not set the Override's value, and
\* every field the call sets the call's value, schema input or not.
C25_NoSchemaValidation ==
    /\ last.op = "override_input" =>
          ~last.raised /\ Holds(overrides, last.field, last.value)
    /\ last.op = "run_scenario" =>
          (last.raised <=> last.name \notin CatalogNames)
    /\ Ran(last) =>
          \A f \in Fields \ SchemaInputs :
              /\ Passes(last.overrides, f)
                    => DictGet(last.result.inputs_used, f) = last.overrides[f]
              /\ \A i \in OverridesFor(overrides, f) :
                    ~Passes(last.overrides, f)
                        => DictGet(last.result.inputs_used, f) = overrides[i].value

\* C25 witness: a run that used the session Override of "vol", which is not
\* an input of the schema.
C25_Witness ==
    /\ Ran(last) /\ last.overrides = None
    /\ "vol" \notin SchemaInputs
    /\ Holds(overrides, "vol", 70)
    /\ last.result.inputs_used = [rate |-> 50, vol |-> 70]

\* The Override Store as the mapping from field to value.
SessionMapping(ovs) ==
    [f \in {ovs[i].field : i \in 1..Len(ovs)} |->
        ovs[CHOOSE i \in 1..Len(ovs) : ovs[i].field = f].value]

\* A newly constructed service given session Overrides for this mapping.
FreshWith(mapping) ==
    [overrides |->
        [i \in 1..Len(SelectSeq(<<"rate", "vol">>, LAMBDA f : f \in DOMAIN mapping))
            |-> [source |-> "any",
                 field |-> SelectSeq(<<"rate", "vol">>,
                                     LAMBDA f : f \in DOMAIN mapping)[i],
                 value |-> mapping[SelectSeq(<<"rate", "vol">>,
                                     LAMBDA f : f \in DOMAIN mapping)[i]],
                 applied_at |-> 0]],
     last_results |-> <<>>,
     clock |-> 0]

\* A result with run_at left out.
WithoutRunAt(result) ==
    [inputs_used |-> result.inputs_used, outputs |-> result.outputs,
     overrides_applied |-> result.overrides_applied]

\* C27: the result of run_scenario(name, call), run_at aside, is the result
\* the same call gives on a newly constructed service with the same session
\* mapping, so it depends on nothing else of the history or of the cache.
C27_HistoryIndependent ==
    Ran(last) =>
        WithoutRunAt(last.result)
          = WithoutRunAt(RunScenario(FreshWith(SessionMapping(overrides)),
                                     last.name, last.overrides).result)

\* C27 witness: a run of "stress" under the session Override rate = 5.5,
\* while the cache holds a result of "base" made before that Override.
C27_Witness ==
    /\ Ran(last) /\ last.name = "stress" /\ last.overrides = None
    /\ SessionMapping(overrides) = [rate |-> 55]
    /\ "base" \in DOMAIN last_results
    /\ last_results["base"].inputs_used = [rate |-> 50]
    /\ last.result.inputs_used = [rate |-> 55]

\* The contents of the object a slot refers to, None when it refers to none.
Contents(h, r, slot) == IF r[slot] = 0 THEN None ELSE [v |-> h[r[slot]]]

\* C23: get_active_overrides and get_current_results leave the Override
\* Store and the cache as they were and return their contents; a list or
\* dict they returned keeps its contents over every later override_input,
\* reset_overrides and run_scenario; and a caller adding to or removing from
\* such a list or dict leaves the Override Store and the cache as they were.
C23_QueriesAreSnapshots ==
    [][/\ last'.op \in {"get_active_overrides", "get_current_results",
                        "caller_append", "caller_pop",
                        "caller_setitem", "caller_delitem"}
            => /\ StoreOf(heap', refs', "one") = StoreOf(heap, refs, "one")
               /\ CacheOf(heap', refs', "one") = CacheOf(heap, refs, "one")
       /\ last'.op = "get_active_overrides"
            => Contents(heap', refs', "held_list")
                 = [v |-> StoreOf(heap, refs, "one")]
       /\ last'.op = "get_current_results"
            => Contents(heap', refs', "held_dict")
                 = [v |-> CacheOf(heap, refs, "one")]
       /\ last'.op \in {"override_input", "reset_overrides", "run_scenario"}
            => /\ Contents(heap', refs', "held_list")
                    = Contents(heap, refs, "held_list")
               /\ Contents(heap', refs', "held_dict")
                    = Contents(heap, refs, "held_dict")]_vars

\* C23 witness: the caller holds a list with the Override of "rate" and a
\* dict without results, both returned before the store was reset and
\* "stress" was run.
C23_Witness ==
    /\ refs["held_list"] # 0 /\ refs["held_dict"] # 0
    /\ Len(heap[refs["held_list"]]) = 1
    /\ heap[refs["held_list"]][1].field = "rate"
    /\ DOMAIN heap[refs["held_dict"]] = {}
    /\ StoreOf(heap, refs, "one") = <<>>
    /\ DOMAIN CacheOf(heap, refs, "one") = {"stress"}

\* C26: in every reachable state the Repository's list of scenarios, each
\* scenario definition's overrides dict and the Runner's base inputs are as
\* the wiring made them, and after run_scenario(name, call) the dict passed
\* as call has the contents it was passed with.
C26_WiringUnchanged ==
    /\ heap[refs["base_inputs"]] = BaseInputs
    /\ heap[refs["scenarios"]] = Available
    /\ \A n \in CatalogNames : heap[refs[OverridesSlot[n]]] = Definition(n).overrides
    /\ (last.op = "run_scenario" /\ last.overrides # None)
          => Contents(heap, refs, "call") = [v |-> last.overrides]

\* C26 witness: a run of "stress" with a session Override of "rate" and the
\* call override vol = 6.5 used inputs that differ from the base inputs.
C26_Witness ==
    /\ last.op = "run_scenario" /\ ~last.raised
    /\ last.name = "stress" /\ last.overrides = [vol |-> 65]
    /\ last.result.inputs_used = [rate |-> 55, vol |-> 65]
    /\ heap[refs["base_inputs"]] = [rate |-> 50]
    /\ heap[refs["call"]] = [vol |-> 65]

\* The other instance.
Other(s) == IF s = "one" THEN "two" ELSE "one"

\* C28: the two services have their own list and dict; a command on one
\* leaves the Override Store and the cache of the other as they were, and
\* the result of a run on one is the result of that run given its own
\* Override Store alone.
C28_InstanceIsolation ==
    [][/\ refs'["one._overrides"] # refs'["two._overrides"]
       /\ refs'["one._last_results"] # refs'["two._last_results"]
       /\ \A s \in Instances :
            last'.on = s =>
              /\ StoreOf(heap', refs', Other(s)) = StoreOf(heap, refs, Other(s))
              /\ CacheOf(heap', refs', Other(s)) = CacheOf(heap, refs, Other(s))
              /\ (last'.op = "run_scenario" /\ ~last'.raised) =>
                    WithoutRunAt(last'.result)
                      = WithoutRunAt(
                          RunScenario(FreshWith(SessionMapping(StoreOf(heap, refs, s))),
                                      last'.name, last'.overrides).result)]_vars

\* C28 witness: service "one" holds an Override of "rate" and a result of
\* "stress"; a run of "stress" on service "two" used the definition's rate.
C28_Witness ==
    /\ last.op = "run_scenario" /\ last.on = "two" /\ ~last.raised
    /\ last.result.inputs_used = [rate |-> 60]
    /\ Len(StoreOf(heap, refs, "one")) = 1
    /\ StoreOf(heap, refs, "one")[1].field = "rate"
    /\ StoreOf(heap, refs, "two") = <<>>
    /\ DOMAIN CacheOf(heap, refs, "one") = {"stress"}
    /\ \A n \in DOMAIN CacheOf(heap, refs, "one") :
         CacheOf(heap, refs, "one")[n].inputs_used = [rate |-> 55]

\* C29: on the server's one service, a run by a session uses the value of
\* every Override the other session stored (its source tells whose it is),
\* the run of a scenario puts its result in the cache whatever the entry
\* was, and what a session reads right after the other session's run of a
\* scenario is that run's result.
C29_SharedCollision ==
    [][\A c1 \in Callers : \A c2 \in Callers \ {c1} :
         /\ (last'.op = "run_scenario" /\ last'.caller = c2 /\ ~last'.raised)
              => /\ \A i \in 1..Len(StoreOf(heap, refs, "one")) :
                       StoreOf(heap, refs, "one")[i].source = SourceOf(c1)
                         => /\ StoreOf(heap, refs, "one")[i].field
                                 \in DOMAIN last'.result.inputs_used
                            /\ last'.result.inputs_used[StoreOf(heap, refs, "one")[i].field]
                                 = StoreOf(heap, refs, "one")[i].value
                 /\ Entry(CacheOf(heap', refs', "one"), last'.name) = <<last'.result>>
         /\ (/\ last.op = "run_scenario" /\ last.caller = c1 /\ ~last.raised
             /\ last'.op = "get_latest_results" /\ last'.caller = c2)
              => Entry(last'.results, last.name) = <<last.result>>]_vars

\* C29 witness: session 2 ran "stress" while the store held one Override,
\* rate = 4.5 stored by session 1, and the run used 4.5 where the
\* definition says 6.0.
C29_Witness ==
    /\ last.op = "run_scenario" /\ last.caller = "session_2" /\ ~last.raised
    /\ last.name = "stress"
    /\ Len(StoreOf(heap, refs, "one")) = 1
    /\ StoreOf(heap, refs, "one")[1].source = SourceOf("session_1")
    /\ StoreOf(heap, refs, "one")[1].field = "rate"
    /\ last.result.inputs_used = [rate |-> 45]

\* The dict is an error dict.
IsErrorDict(d) == "error" \in DOMAIN d

\* C30: dispatch returns a dict for every tool name and argument mapping;
\* for a tool name that is not registered the dict is the "Unknown tool"
\* error and no service method was called; for an unknown scenario or a
\* missing required argument the dict is an error dict; and whenever the
\* dict is an error dict the Override Store and the cache are as they were
\* before the call.
C30_DispatchNeverRaises ==
    [][last'.op = "dispatch" =>
        /\ ~last'.raised
        /\ last'.name \notin HandlerNames
              => /\ last'.returned = [error |-> <<"Unknown tool", last'.name>>]
                 /\ last'.service_calls = 0
        /\ (last'.name \in HandlerNames /\ ~Binds(last'.name, last'.arguments))
              => IsErrorDict(last'.returned)
        /\ (/\ last'.name = "run_scenario" /\ Binds(last'.name, last'.arguments)
            /\ last'.arguments["name"] \notin CatalogNames)
              => IsErrorDict(last'.returned)
        /\ (/\ last'.name = "compare_scenarios" /\ Binds(last'.name, last'.arguments)
            /\ \/ last'.arguments["scenario_a"] \notin CatalogNames
               \/ last'.arguments["scenario_b"] \notin CatalogNames)
              => IsErrorDict(last'.returned)
        /\ IsErrorDict(last'.returned)
              => /\ overrides' = overrides
                 /\ last_results' = last_results]_vars

\* The names of the MCP tools.
ToolOps ==
    {"run_scenario", "override_input", "reset_overrides", "compare_scenarios",
     "get_available_scenarios"}

\* C31: a tool called while no service is wired returns an error dict, does
\* not raise and changes no object; a tool called while service s is wired
\* leaves the other service's Override Store and cache as they were,
\* override_input stores its Override in s, a run_scenario that returns a
\* result used the value of every Override of s, and the overrides resource
\* lists the Overrides of s.
C31_ToolWiring ==
    [][/\ (last'.op \in ToolOps /\ service = None)
            => /\ ~last'.raised
               /\ IsErrorDict(last'.returned)
               /\ heap' = heap /\ refs' = refs
       /\ \A s \in Instances :
            (/\ service = [instance |-> s]
             /\ last'.op \in ToolOps \cup {"get_current_overrides"})
            => /\ ~last'.raised
               /\ StoreOf(heap', refs', Other(s)) = StoreOf(heap, refs, Other(s))
               /\ CacheOf(heap', refs', Other(s)) = CacheOf(heap, refs, Other(s))
               /\ last'.op = "override_input"
                    => StoreOf(heap', refs', s)
                         = OverrideInput(StoreOf(heap, refs, s), last'.arguments.source,
                                         last'.arguments.field, last'.arguments.value,
                                         clock)
               /\ (last'.op = "run_scenario" /\ ~IsErrorDict(last'.returned))
                    => \A i \in 1..Len(StoreOf(heap, refs, s)) :
                         /\ StoreOf(heap, refs, s)[i].field
                              \in DOMAIN last'.returned.inputs_used
                         /\ last'.returned.inputs_used[StoreOf(heap, refs, s)[i].field]
                              = StoreOf(heap, refs, s)[i].value
               /\ last'.op = "get_current_overrides"
                    => last'.returned
                         = [json |-> [i \in 1..Len(StoreOf(heap, refs, s)) |->
                                         StoreOf(heap, refs, s)[i]]]]_vars

\* C31 witness: with service "two" wired, override_input set rate to 4.5
\* and the tool run_scenario("stress") then returned a result that used 4.5
\* where the definition says 6.0; service "one" holds no Override.
C31_Witness ==
    /\ service = [instance |-> "two"]
    /\ last.op = "run_scenario" /\ ~IsErrorDict(last.returned)
    /\ last.returned.inputs_used = [rate |-> 45]
    /\ Len(StoreOf(heap, refs, "two")) = 1
    /\ StoreOf(heap, refs, "one") = <<>>
    /\ DOMAIN CacheOf(heap, refs, "one") = {}

\* C31 witness of the unwired case: the tool run_scenario("stress") returned
\* the error dict while _service was None.
C31_WitnessNotWired ==
    /\ service = None
    /\ last.op = "run_scenario" /\ last.arguments = [name |-> "stress"]
    /\ last.returned = NotWired

\* An output name that just one of the two results has.
OneSided(m) ==
    (m \in DOMAIN last.result_a.outputs) # (m \in DOMAIN last.result_b.outputs)

\* C32, as claimed: when metrics is None, the compared metrics are the
\* output fields present in both results and only those; a field present in
\* just one of the results is not compared.
C32_SharedOnly ==
    (EngineCompared /\ last.metrics = None) =>
        /\ Elements(last.comparison.metrics)
             = (DOMAIN last.result_a.outputs) \cap (DOMAIN last.result_b.outputs)
        /\ \A m \in Elements(NameOrder) :
             OneSided(m) => m \notin DOMAIN last.comparison.differences

\* The call recorded as l ran scenario n, directly or inside
\* compare_scenarios, and that run returned a result. Inside
\* compare_scenarios the run of scenario_a returned unless the call raised
\* the error of that name, and the run of scenario_b returned unless the
\* call raised the error of a name.
RunReturned(l, n) ==
    \/ l.op = "run_scenario" /\ ~l.raised /\ l.name = n
    \/ /\ l.op = "compare_scenarios"
       /\ \/ ~l.raised
          \/ l.error.type # "ValueError"
          \/ l.scenario_a = n /\ l.error.name # n
       /\ l.scenario_a = n \/ l.scenario_b = n

\* C33: the cache is empty until the first command; over every step a name
\* has an entry afterwards exactly when it had one before or the step is a
\* run of that name that returned a result (directly or inside
\* compare_scenarios); and every key is a name of the catalog.
C33_CacheMembership ==
    [][/\ last.op = "init" => DOMAIN last_results = {}
       /\ \A n \in CallNames :
            (n \in DOMAIN last_results')
              <=> (n \in DOMAIN last_results \/ RunReturned(last', n))
       /\ DOMAIN last_results' \subseteq CatalogNames]_vars

\* C33 witness: after runs of "base" and "stress", a run of
\* "does_not_exist" has raised and the cache has the two entries.
C33_Witness ==
    /\ last.op = "run_scenario" /\ last.raised /\ last.name = "does_not_exist"
    /\ DOMAIN last_results = {"base", "stress"}

\* The inputs a run of the scenario uses under the Override Store ovs when
\* the call passes no overrides.
SessionInputs(name, ovs) ==
    DictUpdate(DictUpdate(BaseInputs, Definition(name).overrides), SessionDict(ovs))

\* C34: compare_scenarios leaves the Override Store as it was, and in the
\* comparison it returns both results used the inputs of a run without call
\* overrides under that store: each carries the session value of every
\* field that has an Override, whatever its scenario definition says.
C34_SameSessionBothSides ==
    [][last'.op = "compare_scenarios" =>
        /\ overrides' = overrides
        /\ ~last'.raised =>
             /\ last'.comparison.scenario_a.inputs_used
                  = SessionInputs(last'.scenario_a, overrides)
             /\ last'.comparison.scenario_b.inputs_used
                  = SessionInputs(last'.scenario_b, overrides)
             /\ \A i \in 1..Len(overrides) :
                  /\ last'.comparison.scenario_a.inputs_used[overrides[i].field]
                       = overrides[i].value
                  /\ last'.comparison.scenario_b.inputs_used[overrides[i].field]
                       = overrides[i].value]_vars

\* C34 witness: with the session Override rate = 5.5, compare_scenarios of
\* "base" and "stress" used 5.5 on both sides, where the definition of
\* "stress" says 6.0.
C34_Witness ==
    /\ Compared(last)
    /\ last.scenario_a = "base" /\ last.scenario_b = "stress"
    /\ Len(overrides) = 1 /\ overrides[1].field = "rate" /\ overrides[1].value = 55
    /\ last.comparison.scenario_a.inputs_used = [rate |-> 55]
    /\ last.comparison.scenario_b.inputs_used = [rate |-> 55]
    /\ Definition("stress").overrides = [rate |-> 60]

\* Override o stands at some index of the store ovs.
StandsIn(o, ovs) == \E i \in 1..Len(ovs) : ovs[i] = o

\* Override o stands before Override p in the store ovs.
StandsBefore(o, p, ovs) ==
    \E i, j \in 1..Len(ovs) : i < j /\ ovs[i] = o /\ ovs[j] = p

\* C35: over override_input(s, f, v), every Override for a field other than
\* f is in the store afterwards with its source, value and timestamp, the
\* store has no other Override for such a field, and two such Overrides
\* stand in the order they stood in.
C35_OtherFieldsKept ==
    [][last'.op = "override_input" =>
        /\ \A i \in 1..Len(overrides) :
             overrides[i].field # last'.field => StandsIn(overrides[i], overrides')
        /\ \A j \in 1..Len(overrides') :
             overrides'[j].field # last'.field => StandsIn(overrides'[j], overrides)
        /\ \A i, j \in 1..Len(overrides) :
             (/\ i < j
              /\ overrides[i].field # last'.field
              /\ overrides[j].field # last'.field)
                => StandsBefore(overrides[i], overrides[j], overrides')]_vars

\* C35 witness: the store held "rate", "vol" and "spread" in this order;
\* override_input for "rate" left "vol" before "spread", each as it was, and
\* put the new Override of "rate" last.
C35_Witness ==
    /\ last.op = "override_input" /\ last.field = "rate"
    /\ Len(overrides) = 3
    /\ overrides[1] = [source |-> "rates", field |-> "vol", value |-> 55,
                       applied_at |-> -2]
    /\ overrides[2] = [source |-> "rates", field |-> "spread", value |-> 55,
                       applied_at |-> -1]
    /\ overrides[3].field = "rate" /\ overrides[3].applied_at = 0

\* C36: in every comparison returned, the keys of differences are the names
\* of its metrics list, and the entry of a name that neither result has as
\* an output has a, b, delta and pct_change None.
C36_EveryMetricHasAnEntry ==
    EngineCompared =>
        /\ DOMAIN last.comparison.differences = Elements(last.comparison.metrics)
        /\ \A m \in Elements(last.comparison.metrics) :
             (/\ m \notin DOMAIN last.result_a.outputs
              /\ m \notin DOMAIN last.result_b.outputs)
                => last.comparison.differences[m]
                     = [a |-> None, b |-> None, delta |-> None, pct_change |-> None]

\* C36 witness: "nav" was asked for, neither result has it, and it has an
\* entry of Nones.
C36_Witness ==
    /\ EngineCompared
    /\ "nav" \in Elements(last.comparison.metrics)
    /\ "nav" \notin DOMAIN last.result_a.outputs
    /\ "nav" \notin DOMAIN last.result_b.outputs
    /\ last.comparison.differences["nav"]
         = [a |-> None, b |-> None, delta |-> None, pct_change |-> None]

\* The conversation after tool call l.index of the response was answered:
\* what the provider was sent, the response's message, and one role=tool
\* message for each call answered so far, in the order of the calls, with the
\* call's id and name.
ToolMessagesFollow(l, messages) ==
    /\ Len(messages) = Len(l.sent) + 1 + l.index
    /\ SubSeq(messages, 1, Len(l.sent)) = l.sent
    /\ messages[Len(l.sent) + 1] = l.response.message
    /\ \A i \in 1..l.index :
          /\ messages[Len(l.sent) + 1 + i].role = "tool"
          /\ messages[Len(l.sent) + 1 + i].tool_call_id = [v |-> l.response.tool_calls[i].id]
          /\ messages[Len(l.sent) + 1 + i].name = [v |-> l.response.tool_calls[i].name]

\* C37: within one chat turn the tool calls of a provider response are
\* answered one after the other, each by exactly one role=tool message with
\* the call's id and name appended to the conversation in the order of the
\* calls; the next provider request is made only when every call of the
\* response is answered, and gets the conversation with those messages; the
\* turn returns at the first response without tool calls, changing nothing,
\* and no step follows the return.
C37_ToolProtocol ==
    [][ /\ last.op # "return"
        /\ last.op = "chat" =>
              IF last.response.tool_calls = <<>>
              THEN last'.op = "return"
              ELSE last'.op = "dispatch" /\ last'.index = 1
        /\ (last.op = "dispatch" /\ last.index < Len(last.response.tool_calls)) =>
              (last'.op = "dispatch" /\ last'.index = last.index + 1)
        /\ last'.op = "dispatch" =>
              /\ last'.response = last.response /\ last'.sent = last.sent
              /\ ToolMessagesFollow(last', heap'[refs'["messages"]])
        /\ last'.op = "chat" =>
              /\ last.op = "dispatch" => last.index = Len(last.response.tool_calls)
              /\ last'.sent = heap[refs["messages"]]
              /\ <<overrides', last_results'>> = <<overrides, last_results>>
        /\ last'.op = "return" =>
              /\ last.op = "chat" /\ last.response.tool_calls = <<>>
              /\ <<overrides', last_results', heap'>> = <<overrides, last_results, heap>>
      ]_vars

\* The turn has returned at its second response, after the two tool calls of
\* the first one (a run and a tool that is not registered) were answered in
\* that order.
C37_Witness ==
    /\ last.op = "return" /\ last.request = 2
    /\ Len(heap[refs["messages"]]) = 5
    /\ heap[refs["messages"]][3].role = "tool" /\ heap[refs["messages"]][3].name = [v |-> "run_scenario"]
    /\ heap[refs["messages"]][3].tool_call_id = [v |-> <<1, 1>>]
    /\ heap[refs["messages"]][4].role = "tool" /\ heap[refs["messages"]][4].name = [v |-> "nonexistent_tool"]
    /\ heap[refs["messages"]][4].tool_call_id = [v |-> <<1, 2>>]
    /\ DOMAIN last_results = {"stress"}

\* The tool call recorded as l ran scenario n on the wired service and the
\* run returned a result: a run_scenario tool call of n that did not answer
\* with an error, or a compare_scenarios tool call whose run of n returned
\* (the comparison was answered, or n is scenario_a and the error is the
\* unknown scenario_b).
RanOnServer(l, n) ==
    \/ /\ l.op = "run_scenario" /\ l.arguments.name = n
       /\ ~IsErrorDict(l.returned)
    \/ /\ l.op = "compare_scenarios"
       /\ l.returned # NotWired
       /\ \/ /\ l.arguments.scenario_a = n
             /\ l.returned # [error |-> Str(UnknownScenario(n))]
          \/ /\ l.arguments.scenario_b = n
             /\ ~IsErrorDict(l.returned)

\* C38: the prompt explain_scenario_result called while service s is wired
\* leaves every object (the caches and the Override Stores among them) and
\* the clock as they were, and returns the "No result found" text for the
\* name exactly when the cache of s has no entry for it, the text with the
\* cached result's inputs, overrides and outputs otherwise; and over every
\* step a name has an entry in the cache of s afterwards exactly when it had
\* one before or the step is a tool call on s in which a run of that name
\* returned.
C38_PromptReadsTheCache ==
    [][\A s \in Instances :
         /\ (last'.op = "explain_scenario_result" /\ service = [instance |-> s]) =>
               /\ heap' = heap /\ refs' = refs /\ clock' = clock
               /\ (last'.returned = NoResultFound(last'.arguments.scenario_name))
                     <=> (last'.arguments.scenario_name
                             \notin DOMAIN CacheOf(heap, refs, s))
               /\ last'.arguments.scenario_name \in DOMAIN CacheOf(heap, refs, s) =>
                     last'.returned =
                        ExplainPrompt(last'.arguments.scenario_name,
                                      CacheOf(heap, refs, s)[last'.arguments.scenario_name])
         /\ \A n \in ObjNames :
               (n \in DOMAIN CacheOf(heap', refs', s))
                 <=> \/ n \in DOMAIN CacheOf(heap, refs, s)
                     \/ service = [instance |-> s] /\ RanOnServer(last', n)]_vars

\* The prompt has returned "No result found" for "stress" on the wired
\* service two, whose store holds an Override, while the cache of service
\* one has a result for "stress".
C38_Witness ==
    /\ last.op = "explain_scenario_result"
    /\ last.arguments.scenario_name = "stress"
    /\ service = [instance |-> "two"]
    /\ last.returned = NoResultFound("stress")
    /\ StoreOf(heap, refs, "two") # <<>>
    /\ "stress" \in DOMAIN CacheOf(heap, refs, "one")

\* The prompt has returned the text for the result of "stress" that the
\* wired service one has cached.
C38_WitnessCached ==
    /\ last.op = "explain_scenario_result"
    /\ last.arguments.scenario_name = "stress"
    /\ service = [instance |-> "one"]
    /\ "stress" \in DOMAIN CacheOf(heap, refs, "one")
    /\ last.returned = ExplainPrompt("stress", CacheOf(heap, refs, "one")["stress"])

====
